---- MODULE Spec2Model ----
(***************************************************************************)
(* Better YouTube Music: plugin runtime.                                   *)
(*                                                                         *)
(* The state machines of the repository are modelled here, each with its  *)
(* own specification over one shared set of variables:                     *)
(*   Spec        the scrobbler renderer scripts (LastFM, ListenBrainz)     *)
(*   SpecProxy   the same scripts with their requests in flight on the     *)
(*               proxy channel                                             *)
(*   SpecInject  script injection by the plugins' onRendererLoaded hooks   *)
(*               and the BrowserUI title bar                               *)
(*   SpecIdentity  the same scripts on pages whose titles and artists      *)
(*               differ in every way: the track identity                   *)
(*   SpecNav     the navigation watcher of SharedRendererUtils             *)
(*   SpecServer  the CompanionServer plugin and its HTTP listener          *)
(*   SpecConfig  the plugins' getConfig over the persisted configs         *)
(***************************************************************************)
EXTENDS Integers, Sequences, FiniteSets, TLC

(***************************************************************************)
(* Bounds of the model.                                                    *)
(***************************************************************************)
MaxTicks == 3        \* clock steps taken by Tick
MaxLoads == 2        \* content-loaded events of the window
MaxNavs == 2         \* in-page navigations of the window
MaxTimeouts == 1     \* pending setTimeout(init, 500) of the BrowserUI title-bar script
MaxNavSubscribers == 2    \* callbacks registered with onNavigation
MaxVideoSubscribers == 2  \* callbacks registered with onVideoFound
MaxClicks == 1       \* pending click-triggered checks
MaxInFlight == 1     \* requests in flight on the proxy channel
MaxProxyTicks == 1   \* clock steps while the proxy channel is observed

(***************************************************************************)
(* Program constants.                                                      *)
(***************************************************************************)
UPDATE_INTERVAL == 30000      \* ms, now-playing throttle
MIN_SCROBBLE_SECONDS == 240   \* the "4 minutes" of Math.max(duration * 0.5, 240)
DEFAULT_PORT == 9863          \* CompanionServer: getConfig().port || 9863
AGGRESSIVE_POLL == 1000       \* ms, setInterval(checkForVideo, 1000)
RELAXED_POLL == 5000          \* ms, setInterval(checkForVideo, 5000)

ApiKey == "083dc925d5f8909a311691773d5de171"
ApiSecret == "a09d06b4c63593cce45c7324766445e2"

\* The clock advances in steps of a third of the throttle window; Date.now()
\* is far above UPDATE_INTERVAL when a script starts.
ClockStep == UPDATE_INTERVAL \div 3
Epoch == 100 * UPDATE_INTERVAL

Null == [null |-> TRUE]

Max(a, b) == IF a >= b THEN a ELSE b

VARIABLES
  \* ---- scrobbler renderer script (one context, one adapter) ----
  adapter,          \* which plugin's script this context runs
  stored,           \* the plugin's persisted config in the host's Config Store
  script,           \* "none" | "inactive" | "started" | "watching"
  config,           \* const config = ${config}: the literal embedded in the script
  now,              \* Date.now()
  video,            \* document.querySelector('video')
  pageTrack,        \* the track the page shows (mediaSession metadata, player-bar text)
  href,             \* location.href
  currentTrack,
  scrobbled,
  startTime,        \* 0 stands for null (both falsy; Date.now() is never 0)
  lastUpdateTime,
  lastUrl,          \* LastFM script's navigation watcher
  videoListeners,   \* timeupdate/play/pause listeners bound by setupWatcher
  out,              \* the last step: its operation and the requests it issued, each with
                    \* the outcome the host and the network will give it
  sessionScrobbles, \* history: scrobble submissions in the current tracking session
  failedScrobble,   \* history: the current session's scrobble submission has failed
  lastPushed,       \* history: per track id, the time of its last now-playing request
  pending,          \* requests in flight: makeRequest/submitListen awaiting the host
  failedReply,      \* history: the script has handled a failed reply
  \* ---- script injection (one window, one plugin under observation) ----
  plugin,           \* the plugin whose hook and script are observed
  pluginEnabled,    \* enabled flag of its persisted config
  credentials,      \* its session key / token is configured
  pageUrl,          \* webContents.getURL() / location.href of the window
  loads,            \* content-loaded events so far
  navs,             \* in-page navigations so far
  hookPending,      \* the host has called onRendererLoaded; it has not run yet
  navHandlers,      \* 'did-navigate-in-page' listeners BrowserUI has put on webContents
  reinjectTimers,   \* pending setTimeout(..., 1500) of BrowserUI (overlay) in the host
  ctx,              \* the renderer context: what the plugin's script has left in it
  \* ---- SharedRendererUtils (one context) ----
  utils,            \* the closure state of the utility script
  locationHref,     \* location.href
  docVideo,         \* document.querySelector('video') !== null
  clickTimeouts,    \* pending setTimeout(checkForVideo, 500) of the click listener
  navOut,           \* the last step: its operation and the callbacks it invoked
  owed,             \* history: the video-found subscribers not invoked since the
                    \* last detected URL change
  \* ---- CompanionServer (host process) ----
  csStored,         \* the plugin's persisted config: enabled flag and port override
  server,           \* this.server: Null or the http.Server it holds
  csTrack,          \* this.currentTrack
  busyPorts,        \* ports another process is listening on
  liveServers,      \* history: servers created by createServer and not closed
  csOut,            \* the last step: its operation, the request and the response
  \* ---- DiscordRPC renderer script (one context) ----
  rpcPage,          \* the page: media element, ?v= parameter, title, window.electronAPI
  rpc,              \* the script's closure: currentVideoId, startTime, its timers
  rpcOut,           \* the last step: its operation and the messages it sent to the host
  \* ---- DiscordRPCPlugin (host process) ----
  dc,               \* the plugin: enabled flag of its config, this.mainWindow,
                    \* this.discordService, and the windows with their listeners
  dcOut,            \* the last step: its operation and what it did to services
  \* ---- BetterLyrics renderer script (one context) ----
  blPage,           \* the page: navigator.mediaSession.metadata and the lyrics tab
  bl                \* the script's closure, its lyrics element and its fetches in flight

scrobblerVars ==
  <<adapter, stored, script, config, now, video, pageTrack, href,
    currentTrack, scrobbled, startTime, lastUpdateTime, lastUrl, videoListeners,
    out, sessionScrobbles, failedScrobble, lastPushed, pending, failedReply>>

proxyVars == <<lastPushed, pending, failedReply>>

injectVars ==
  <<plugin, pluginEnabled, credentials, pageUrl, loads, navs, hookPending,
    navHandlers, reinjectTimers, ctx>>

navVars == <<utils, locationHref, docVideo, clickTimeouts, navOut, owed>>

serverVars == <<csStored, server, csTrack, busyPorts, liveServers, csOut>>

rpcVars == <<rpcPage, rpc, rpcOut>>

discordVars == <<dc, dcOut>>

lyricsVars == <<blPage, bl>>

integrationVars == <<rpcVars, discordVars, lyricsVars>>

vars == <<scrobblerVars, injectVars, navVars, serverVars, integrationVars>>

(***************************************************************************)
(* Inputs.                                                                 *)
(***************************************************************************)
Adapters == {"lastfm", "listenbrainz"}

TrackA == [track |-> "Song A", artist |-> "X", album |-> "LP"]
TrackB == [track |-> "Song B", artist |-> "X", album |-> ""]
Tracks == {TrackA, TrackB}

\* <<video.currentTime, video.duration || 0>> in seconds (duration 0: missing/NaN)
Playbacks == {<<150, 300>>, <<240, 300>>, <<240, 1000>>, <<500, 1000>>, <<240, 0>>}
PausedPlaybacks == {<<0, 300>>, <<500, 1000>>}

NoVideo == [present |-> FALSE, currentTime |-> 0, duration |-> 0, paused |-> TRUE]
VideoAt(pb, ps) ==
  [present |-> TRUE, currentTime |-> pb[1], duration |-> pb[2], paused |-> ps]
VideoStates ==
  {NoVideo} \cup {VideoAt(pb, FALSE) : pb \in Playbacks}
            \cup {VideoAt(pb, TRUE) : pb \in PausedPlaybacks}

Urls == {"https://music.youtube.com/", "https://music.youtube.com/watch?v=1"}

StoredConfigs ==
  { [enabled |-> TRUE,  sessionKey |-> "sk", token |-> "tok"],
    [enabled |-> FALSE, sessionKey |-> "sk", token |-> "tok"],
    [enabled |-> TRUE,  sessionKey |-> "",   token |-> ""] }

NoConfig ==
  [enabled |-> FALSE, sessionKey |-> "", token |-> "", apiKey |-> "", apiSecret |-> ""]

NoOut == [op |-> "none", msgs |-> {}]

(***************************************************************************)
(* Host side of the two scrobbler plugins.                                 *)
(***************************************************************************)
\* BasePlugin.isEnabled: the enablement predicate derived from the config.
isEnabled(cfg) == cfg.enabled

\* LastFM.getConfig: apiKey and apiSecret are written after the spread of the
\* persisted config, and therefore part of every config the plugin hands out.
LastFM_getConfig(st) ==
  [enabled |-> st.enabled, sessionKey |-> st.sessionKey, token |-> "",
   apiKey |-> ApiKey, apiSecret |-> ApiSecret]

\* ListenBrainz.getConfig
ListenBrainz_getConfig(st) ==
  [enabled |-> st.enabled, sessionKey |-> "", token |-> st.token,
   apiKey |-> "", apiSecret |-> ""]

(***************************************************************************)
(* Renderer script: helpers.                                               *)
(***************************************************************************)
\* getTrackInfo: {track, artist, album} from the MediaSession metadata or, failing
\* that, from the player-bar text; null when the page shows no track.
getTrackInfo == pageTrack

\* const trackId = trackInfo.track + '|' + trackInfo.artist
trackId(info) == info.track \o "|" \o info.artist

\* trackId !== currentTrack?.id
IsNewTrack(id, ct) == IF ct = Null THEN TRUE ELSE id # ct.id

\* (mutant) the threshold without the four-minute floor
scrobbleThresholdX2_HalfOnly(duration) == duration

\* Math.max(duration * 0.5, 240), doubled to stay in the integers.
scrobbleThresholdX2(duration) == Max(duration, 2 * MIN_SCROBBLE_SECONDS)

\* !scrobbled && video.currentTime > 0 && startTime, then
\* video.currentTime >= scrobbleThreshold
ShouldScrobble(scr, v, st) ==
  /\ ~scr
  /\ v.currentTime > 0
  /\ st # 0
  /\ 2 * v.currentTime >= scrobbleThresholdX2(v.duration)

\* (mutant) the flag is not set after a submission
MarkScrobbled_Forgotten(scr, submitted) == scr

\* scrobbled = true, right after the call of scrobble()/submitListen('import')
MarkScrobbled(scr, submitted) == scr \/ submitted

\* A request on the proxy channel.  Its reply changes no variable of the
\* script (the callers are not awaited and only log the result), so the
\* outcome the request will meet is fixed when it is issued:
\*   "ok"            the service accepted it
\*   "no_signature"  the signature request failed (LastFM): nothing is posted
\*   "error"         the proxied call was rejected or returned an error marker
Request(method, info, timestamp, secret, result) ==
  [method |-> method, artist |-> info.artist, track |-> info.track,
   album |-> info.album, timestamp |-> timestamp, secret |-> secret,
   result |-> result]

LastFM_Results == {"ok", "no_signature", "error"}
ListenBrainz_Results == {"ok", "error"}

IsScrobble(m) == m.method \in {"track.scrobble", "import"}
IsNowPlaying(m) == m.method \in {"track.updateNowPlaying", "playing_now"}

\* LastFM getSignature(params, secret): what the renderer passes to the host
\* over the 'lastfm-signature' channel as the secret.
LastFM_signatureSecret == config.apiSecret

\* LastFM scrobble(): the parameters are fixed at the call; makeRequest asks
\* the host for the signature and then for the POST.
LastFM_scrobble(info, timestamp, result) ==
  {Request("track.scrobble", info, timestamp, LastFM_signatureSecret, result)}

\* (mutant) every call is pushed, the throttle guard is missing
updateNowPlaying_NoThrottle(lut, info, result) ==
  [lastUpdateTime |-> now,
   reqs |-> {[method |-> "track.updateNowPlaying", artist |-> info.artist,
              track |-> info.track, album |-> info.album, timestamp |-> 0,
              secret |-> config.apiSecret, result |-> result]}]

\* LastFM updateNowPlaying(): throttled on lastUpdateTime.  The result is the
\* new lastUpdateTime and the requests issued.
updateNowPlaying(lut, info, result) ==
  IF now - lut < UPDATE_INTERVAL
    THEN [lastUpdateTime |-> lut, reqs |-> {}]
    ELSE [lastUpdateTime |-> now,
          reqs |-> {Request("track.updateNowPlaying", info, 0,
                            LastFM_signatureSecret, result)}]

NotCalled == [lastUpdateTime |-> lastUpdateTime, reqs |-> {}]

\* ListenBrainz submitListen(listenType, ...): one proxied POST, no throttle;
\* listened_at is set for 'import' only.
submitListen(listenType, info, timestamp, result) ==
  {Request(listenType, info, IF listenType = "import" THEN timestamp ELSE 0,
           "", result)}

\* currentTrack = { id: trackId, ...trackInfo }
TrackRecord(info) ==
  [id |-> trackId(info), track |-> info.track, artist |-> info.artist,
   album |-> info.album]

\* The session state of the script: currentTrack, scrobbled, startTime.
Session ==
  [currentTrack |-> currentTrack, scrobbled |-> scrobbled, startTime |-> startTime]

\* (mutant) only the identity is replaced on a track change
NewSession_KeepsFlag(info) == [Session EXCEPT !.currentTrack = TrackRecord(info)]

\* The new-track branch of checkTrack: currentTrack = { id, ...trackInfo };
\* scrobbled = false; startTime = Date.now()
NewSession(info) ==
  [currentTrack |-> TrackRecord(info), scrobbled |-> FALSE, startTime |-> now]

\* (mutant) the navigation watcher leaves the session as it is
resetSession_KeepsSession == Session

\* The navigation watcher's reset: currentTrack = null; scrobbled = false;
\* startTime = null (0 stands for null, Date.now() is never 0).
resetSession == [currentTrack |-> Null, scrobbled |-> FALSE, startTime |-> 0]


(***************************************************************************)
(* Initial state: nothing injected yet.                                    *)
(***************************************************************************)
TrackIds == {trackId(t) : t \in Tracks}

\* Nothing has been sent on the proxy channel.
IdleProxy ==
  /\ lastPushed = [i \in TrackIds |-> 0]
  /\ pending = {}
  /\ failedReply = FALSE

InitScrobbler ==
  /\ IdleProxy
  /\ adapter \in Adapters
  /\ stored \in StoredConfigs
  /\ script = "none"
  /\ config = NoConfig
  /\ now = Epoch
  /\ video = NoVideo
  /\ pageTrack = Null
  /\ href \in Urls
  /\ currentTrack = Null
  /\ scrobbled = FALSE
  /\ startTime = 0
  /\ lastUpdateTime = 0
  /\ lastUrl = href
  /\ videoListeners = FALSE
  /\ out = NoOut
  /\ sessionScrobbles = 0
  /\ failedScrobble = FALSE

\* A renderer context in which no plugin script has run.
EmptyContext ==
  [executions |-> 0,     \* history: executeJavaScript calls of the plugin's script
   marker |-> FALSE,     \* window.__discordRPCInjected / window.__audioOutputInjected
   intervals |-> 0,      \* active setInterval timers of the plugin's script
   lastUrls |-> <<>>,    \* let lastUrl of each running BrowserUI script closure
   titleBars |-> 0,      \* nodes with id better-ytm-titlebar
   buttons |-> 0,        \* nodes with id browser-ui-buttons
   styles |-> 0,         \* nodes with id browser-ui-ytm-style / browser-ui-style
   timeouts |-> 0,       \* pending setTimeout(init, 500) / setTimeout(injectTitleBarButtons, ...)
   restored |-> FALSE]   \* history: the title bar present was put back by the resilience interval

\* window.BetterYouTubeUtils is undefined: the utility script has not run.
NoUtils ==
  [installed |-> FALSE, lastUrl |-> "", videoFound |-> FALSE,
   navigation |-> <<>>, videoFoundListeners |-> <<>>,
   checkInterval |-> 0, timers |-> 0]

\* navCalls / videoCalls: how often the step invoked each navigation / video-found
\* callback; url: the argument it passed; sinceChange and handled are history:
\* the invocations of each navigation callback, and the runs of
\* handleNavigation (counted up to 2), since location.href last changed;
\* discovered: the step took the watcher from not-found to found; awaiting is
\* history: the video-found subscribers that registered while no media element
\* was present and have not been invoked since.
NoNavOut ==
  [op |-> "none", navCalls |-> <<>>, videoCalls |-> <<>>, url |-> "",
   sinceChange |-> <<>>, handled |-> 0, discovered |-> FALSE, awaiting |-> <<>>]

\* The scrobbler script is not observed.
IdleScrobbler ==
  /\ IdleProxy
  /\ adapter = "lastfm"
  /\ stored = [enabled |-> FALSE, sessionKey |-> "", token |-> ""]
  /\ script = "none"
  /\ config = NoConfig
  /\ now = Epoch
  /\ video = NoVideo
  /\ pageTrack = Null
  /\ href = "about:blank"
  /\ currentTrack = Null
  /\ scrobbled = FALSE
  /\ startTime = 0
  /\ lastUpdateTime = 0
  /\ lastUrl = "about:blank"
  /\ videoListeners = FALSE
  /\ out = NoOut
  /\ sessionScrobbles = 0
  /\ failedScrobble = FALSE

\* Script injection is not observed.
IdleInject ==
  /\ plugin = "none"
  /\ pluginEnabled = FALSE
  /\ credentials = FALSE
  /\ pageUrl = "about:blank"
  /\ loads = 0
  /\ navs = 0
  /\ hookPending = FALSE
  /\ navHandlers = 0
  /\ reinjectTimers = 0
  /\ ctx = EmptyContext

\* The utility script is not observed.
IdleNav ==
  /\ utils = NoUtils
  /\ locationHref = "about:blank"
  /\ docVideo = FALSE
  /\ clickTimeouts = 0
  /\ navOut = NoNavOut
  /\ owed = <<>>

\* An optional value: a property that is undefined, or one with a value.
None == [some |-> FALSE]
Some(v) == [some |-> TRUE, val |-> v]

\* private currentTrack: the idle placeholder.
IdleTrack ==
  [title |-> "Idle", artist |-> "Waiting for music...", album |-> "",
   duration |-> 0, position |-> 0, isPaused |-> Some(TRUE), cover |-> "",
   id |-> None]

NoCsOut == [op |-> "none", hadServer |-> FALSE, logged |-> FALSE,
            request |-> Null, response |-> Null]

\* The companion server is not observed.
IdleServer ==
  /\ csStored = [enabled |-> FALSE, port |-> None]
  /\ server = Null
  /\ csTrack = IdleTrack
  /\ busyPorts = {}
  /\ liveServers = 0
  /\ csOut = NoCsOut

\* The DiscordRPC script is not observed.
NoRpc ==
  [state |-> "none", currentVideoId |-> "", startTime |-> 0,
   updateTimeout |-> FALSE, navTimeouts |-> 0]

\* msgs: the channels invoked by the step, in order; lastSent is history: the
\* channel of the last message sent so far.
NoRpcOut == [op |-> "none", msgs |-> <<>>, lastSent |-> "none"]

IdleRpc ==
  /\ rpcPage = [video |-> FALSE, paused |-> TRUE, v |-> "", title |-> "", api |-> TRUE]
  /\ rpc = NoRpc
  /\ rpcOut = NoRpcOut

MaxWindows == 2         \* windows the host creates
MaxHandlers == 2        \* pending once('ready-to-show') listeners on one window

Windows == 1..MaxWindows

\* The DiscordRPC plugin before any hook has run; no window exists.
\* mainWindow 0 stands for null; liveServices is history: the services
\* created and not cleaned up.
NoDiscord ==
  [enabled |-> FALSE, mainWindow |-> 0, discordService |-> Null, liveServices |-> 0,
   windows |-> [w \in Windows |-> "none"], handlers |-> [w \in Windows |-> 0]]

NoDcOut == [op |-> "none", created |-> FALSE, reached |-> FALSE, shownBefore |-> FALSE]

IdleDiscord ==
  /\ dc = NoDiscord
  /\ dcOut = NoDcOut

MaxFetches == 2         \* fetchLyrics calls awaiting a response at one time
Slots == 1..MaxFetches

FreeSlot == [track |-> "", stage |-> "free"]

\* let currentLyrics = []; let lastFetchedTrack = ''; let lastTitle = '';
\* lyricsContent is the element createUI made, with nothing in it.
NoLyrics ==
  [lastFetchedTrack |-> "", currentLyrics |-> "", displayed |-> "", lastTitle |-> "",
   active |-> FALSE, inflight |-> [s \in Slots |-> FreeSlot]]

NoLyricsPage == [metadata |-> "", tab |-> "absent"]

IdleLyrics == blPage = NoLyricsPage /\ bl = NoLyrics

IdleIntegrations == IdleRpc /\ IdleDiscord /\ IdleLyrics

Init == InitScrobbler /\ IdleInject /\ IdleNav /\ IdleServer /\ IdleIntegrations

(***************************************************************************)
(* The page and the clock.                                                 *)
(***************************************************************************)
hostVars == <<adapter, stored>>
pageVars == <<video, pageTrack, href>>
scriptVars == <<script, config, lastUrl, videoListeners>>
sessionVars == <<currentTrack, scrobbled, startTime, lastUpdateTime>>
historyVars == <<sessionScrobbles, failedScrobble>>

Tick ==
  /\ now < Epoch + MaxTicks * ClockStep
  /\ now' = now + ClockStep
  /\ out' = NoOut
  /\ UNCHANGED <<injectVars, navVars, serverVars, integrationVars, proxyVars, hostVars, pageVars, scriptVars, sessionVars, historyVars>>

PageVideo(v) ==
  /\ v # video
  /\ video' = v
  /\ out' = NoOut
  /\ UNCHANGED <<injectVars, navVars, serverVars, integrationVars, proxyVars, hostVars, now, pageTrack, href, scriptVars, sessionVars, historyVars>>

PageTrack(m) ==
  /\ m # pageTrack
  /\ pageTrack' = m
  /\ out' = NoOut
  /\ UNCHANGED <<injectVars, navVars, serverVars, integrationVars, proxyVars, hostVars, now, video, href, scriptVars, sessionVars, historyVars>>

PageNavigate(u) ==
  /\ u # href
  /\ href' = u
  /\ out' = NoOut
  /\ UNCHANGED <<injectVars, navVars, serverVars, integrationVars, proxyVars, hostVars, now, video, pageTrack, scriptVars, sessionVars, historyVars>>

(***************************************************************************)
(* LastFM: host hook and renderer script.                                  *)
(***************************************************************************)
\* LastFM.onRendererLoaded, and the first lines of the injected script.
LastFM_onRendererLoaded ==
  /\ adapter = "lastfm"
  /\ script = "none"
  /\ isEnabled(stored)
  /\ LET cfg == LastFM_getConfig(stored) IN
       /\ cfg.apiKey # "" /\ cfg.sessionKey # ""
       /\ config' = cfg
       /\ script' = IF ~cfg.enabled \/ cfg.apiKey = "" \/ cfg.sessionKey = ""
                      THEN "inactive" ELSE "started"
  /\ lastUrl' = href
  /\ out' = NoOut
  /\ UNCHANGED <<injectVars, navVars, serverVars, integrationVars, proxyVars, hostVars, now, pageVars, videoListeners, sessionVars, historyVars>>

\* setupWatcher (500 ms after the script starts, ahead of the first firing of
\* the 1 s navigation interval): observers, video listeners, the 5 s interval
\* and the initial setTimeout(checkTrack, 1000).
LastFM_setupWatcher ==
  /\ adapter = "lastfm"
  /\ script = "started"
  /\ script' = "watching"
  /\ videoListeners' = video.present
  /\ out' = NoOut
  /\ UNCHANGED <<injectVars, navVars, serverVars, integrationVars, proxyVars, hostVars, now, pageVars, config, lastUrl, sessionVars, historyVars>>

\* checkTrack, as run by the timeupdate and play listeners, the mutation
\* observer, the 5 s interval and the one-shot setTimeout(checkTrack, 1000).
LastFM_checkTrack_run(npResult, scrobbleResult) ==
  /\ adapter = "lastfm"
  /\ script = "watching"
  /\ LET trackInfo == getTrackInfo IN
     IF trackInfo = Null \/ ~video.present
       THEN /\ out' = [op |-> "checkTrack", msgs |-> {}, replaced |-> Null]
            /\ UNCHANGED <<sessionVars, historyVars>>
       ELSE
         LET id == trackId(trackInfo)
             isNew == IsNewTrack(id, currentTrack)
             session1 == IF isNew THEN NewSession(trackInfo) ELSE Session
             track1 == session1.currentTrack
             scrobbled1 == session1.scrobbled
             startTime1 == session1.startTime
             np1 == IF isNew
                      THEN updateNowPlaying(lastUpdateTime, trackInfo, npResult)
                      ELSE NotCalled
             submit == ShouldScrobble(scrobbled1, video, startTime1)
             scrobbleReqs ==
               IF submit
                 THEN LastFM_scrobble(track1, startTime1 \div 1000, scrobbleResult)
                 ELSE {}
             np2 == IF ~video.paused
                      THEN updateNowPlaying(np1.lastUpdateTime, track1, npResult)
                      ELSE [lastUpdateTime |-> np1.lastUpdateTime, reqs |-> {}]
             msgs == np1.reqs \cup scrobbleReqs \cup np2.reqs
         IN /\ currentTrack' = track1
            /\ scrobbled' = MarkScrobbled(scrobbled1, submit)
            /\ startTime' = startTime1
            /\ lastUpdateTime' = np2.lastUpdateTime
            /\ out' = [op |-> "checkTrack", msgs |-> msgs,
                        replaced |-> IF isNew THEN Session ELSE Null]
            /\ sessionScrobbles' =
                 (IF isNew THEN 0 ELSE sessionScrobbles) + (IF submit THEN 1 ELSE 0)
            /\ failedScrobble' =
                 IF submit THEN scrobbleResult # "ok"
                 ELSE IF isNew THEN FALSE ELSE failedScrobble
  /\ UNCHANGED <<injectVars, navVars, serverVars, integrationVars, hostVars, now, pageVars, scriptVars>>

\* ... its requests are answered at once.
LastFM_checkTrack(npResult, scrobbleResult) ==
  /\ LastFM_checkTrack_run(npResult, scrobbleResult)
  /\ UNCHANGED proxyVars

\* The pause listener: refresh now-playing when paused.
LastFM_pauseHandler_run(npResult) ==
  /\ adapter = "lastfm"
  /\ script = "watching"
  /\ videoListeners /\ video.present /\ video.paused
  /\ LET np == IF currentTrack # Null
                 THEN updateNowPlaying(lastUpdateTime, currentTrack, npResult)
                 ELSE NotCalled
     IN /\ lastUpdateTime' = np.lastUpdateTime
        /\ out' = [op |-> "pause", msgs |-> np.reqs]
  /\ UNCHANGED <<injectVars, navVars, serverVars, integrationVars, hostVars, now, pageVars, scriptVars, currentTrack, scrobbled,
                 startTime, historyVars>>

\* ... its requests are answered at once.
LastFM_pauseHandler(npResult) ==
  /\ LastFM_pauseHandler_run(npResult)
  /\ UNCHANGED proxyVars

\* The 1 s navigation interval: on a URL change the session is reset and a
\* checkTrack is scheduled.
LastFM_navigationPoll ==
  /\ adapter = "lastfm"
  /\ script = "watching"
  /\ href # lastUrl
  /\ lastUrl' = href
  /\ currentTrack' = resetSession.currentTrack
  /\ scrobbled' = resetSession.scrobbled
  /\ startTime' = resetSession.startTime
  /\ out' = [op |-> "navigation", msgs |-> {}, abandoned |-> currentTrack,
              scrobbled |-> scrobbled]
  /\ sessionScrobbles' = 0
  /\ failedScrobble' = FALSE
  /\ UNCHANGED <<injectVars, navVars, serverVars, integrationVars, proxyVars, hostVars, now, pageVars, script, config, videoListeners,
                 lastUpdateTime>>

(***************************************************************************)
(* ListenBrainz: host hook and renderer script.                            *)
(***************************************************************************)
ListenBrainz_onRendererLoaded ==
  /\ adapter = "listenbrainz"
  /\ script = "none"
  /\ isEnabled(stored)
  /\ LET cfg == ListenBrainz_getConfig(stored) IN
       /\ cfg.token # ""
       /\ config' = cfg
       /\ script' = IF ~cfg.enabled \/ cfg.token = "" THEN "inactive" ELSE "started"
  /\ out' = NoOut
  /\ UNCHANGED <<injectVars, navVars, serverVars, integrationVars, proxyVars, hostVars, now, pageVars, lastUrl, videoListeners, sessionVars,
                 historyVars>>

\* setupWatcher: observer on the player bar, timeupdate listener, 5 s interval.
ListenBrainz_setupWatcher ==
  /\ adapter = "listenbrainz"
  /\ script = "started"
  /\ script' = "watching"
  /\ videoListeners' = video.present
  /\ out' = NoOut
  /\ UNCHANGED <<injectVars, navVars, serverVars, integrationVars, proxyVars, hostVars, now, pageVars, config, lastUrl, sessionVars, historyVars>>

\* checkTrack, as run by the timeupdate listener, the mutation observer and
\* the 5 s interval.
ListenBrainz_checkTrack_run(npResult, scrobbleResult) ==
  /\ adapter = "listenbrainz"
  /\ script = "watching"
  /\ LET trackInfo == getTrackInfo IN
     IF trackInfo = Null \/ ~video.present
       THEN /\ out' = [op |-> "checkTrack", msgs |-> {}, replaced |-> Null]
            /\ UNCHANGED <<sessionVars, historyVars>>
       ELSE
         LET id == trackId(trackInfo)
             isNew == IsNewTrack(id, currentTrack)
             session1 == IF isNew THEN NewSession(trackInfo) ELSE Session
             track1 == session1.currentTrack
             scrobbled1 == session1.scrobbled
             startTime1 == session1.startTime
             npReqs == IF isNew
                         THEN submitListen("playing_now", trackInfo, 0, npResult)
                         ELSE {}
             submit == ShouldScrobble(scrobbled1, video, startTime1)
             scrobbleReqs ==
               IF submit
                 THEN submitListen("import", track1, startTime1 \div 1000,
                                   scrobbleResult)
                 ELSE {}
             msgs == npReqs \cup scrobbleReqs
         IN /\ currentTrack' = track1
            /\ scrobbled' = MarkScrobbled(scrobbled1, submit)
            /\ startTime' = startTime1
            /\ out' = [op |-> "checkTrack", msgs |-> msgs,
                        replaced |-> IF isNew THEN Session ELSE Null]
            /\ sessionScrobbles' =
                 (IF isNew THEN 0 ELSE sessionScrobbles) + (IF submit THEN 1 ELSE 0)
            /\ failedScrobble' =
                 IF submit THEN scrobbleResult # "ok"
                 ELSE IF isNew THEN FALSE ELSE failedScrobble
            /\ UNCHANGED lastUpdateTime
  /\ UNCHANGED <<injectVars, navVars, serverVars, integrationVars, hostVars, now, pageVars, scriptVars>>

\* ... its requests are answered at once.
ListenBrainz_checkTrack(npResult, scrobbleResult) ==
  /\ ListenBrainz_checkTrack_run(npResult, scrobbleResult)
  /\ UNCHANGED proxyVars

Next ==
  \/ Tick
  \/ \E v \in VideoStates : PageVideo(v)
  \/ \E m \in Tracks \cup {Null} : PageTrack(m)
  \/ \E u \in Urls : PageNavigate(u)
  \/ LastFM_onRendererLoaded
  \/ LastFM_setupWatcher
  \/ \E a, b \in LastFM_Results : LastFM_checkTrack(a, b)
  \/ \E a \in LastFM_Results : LastFM_pauseHandler(a)
  \/ LastFM_navigationPoll
  \/ ListenBrainz_onRendererLoaded
  \/ ListenBrainz_setupWatcher
  \/ \E a, b \in ListenBrainz_Results : ListenBrainz_checkTrack(a, b)

Spec == Init /\ [][Next]_vars

(***************************************************************************)
(* Claims about the scrobbler session state machine (under Spec).          *)
(***************************************************************************)
Scrobbles(o) == {m \in o.msgs : IsScrobble(m)}
NowPlayingPushes(o) == {m \in o.msgs : IsNowPlaying(m)}

\* The page still shows the tracked identity and a media element.
SameTrackShown ==
  /\ currentTrack # Null
  /\ video.present
  /\ getTrackInfo # Null
  /\ trackId(getTrackInfo) = currentTrack.id

\* C1: within one tracking session (from the detection of an identity until it
\* is replaced by another one or reset by navigation) at most one scrobble is
\* submitted, whatever the number and order of checkTrack triggers.
C1_ScrobbleOncePerSession == sessionScrobbles <= 1

\* C1 witness: a further checkTrack of the same session, still past the
\* threshold, after the session's scrobble: it submitted nothing.
C1_Witness ==
  /\ sessionScrobbles = 1
  /\ out.op = "checkTrack"
  /\ Scrobbles(out) = {}
  /\ SameTrackShown
  /\ video.currentTime >= 240 /\ 2 * video.currentTime >= video.duration

CallsUpdateNowPlaying ==
  /\ adapter = "lastfm"
  /\ \/ /\ out'.op = "pause"
        /\ currentTrack # Null
     \/ /\ out'.op = "checkTrack"
        /\ getTrackInfo # Null /\ video.present
        /\ \/ ~video.paused
           \/ IsNewTrack(trackId(getTrackInfo), currentTrack)

\* C3: LastFM now-playing throttle.  A call of updateNowPlaying less than 30 s
\* after the last accepted push issues no request and leaves lastUpdateTime
\* alone; a call 30 s or more after it issues exactly one request and moves
\* lastUpdateTime to the time of the call.  So of two triggering events the
\* first of which is accepted, the second adds a request exactly when it comes
\* 30 s or more after the first.
C3_NowPlayingThrottle ==
  [][ (adapter = "lastfm" /\ out'.op \in {"checkTrack", "pause", "navigation"}) =>
        LET pushes == NowPlayingPushes(out')
            elapsed == now - lastUpdateTime
        IN IF CallsUpdateNowPlaying /\ elapsed >= UPDATE_INTERVAL
             THEN Cardinality(pushes) = 1 /\ lastUpdateTime' = now
             ELSE pushes = {} /\ lastUpdateTime' = lastUpdateTime ]_vars

\* C3 witness: a trigger of a playing, tracked track 10 or 20 s after the
\* accepted push: no second request, the throttle timestamp has not moved.
C3_Witness ==
  /\ adapter = "lastfm"
  /\ out.op = "checkTrack"
  /\ NowPlayingPushes(out) = {}
  /\ SameTrackShown /\ ~video.paused
  /\ lastUpdateTime > 0
  /\ now > lastUpdateTime /\ now - lastUpdateTime < UPDATE_INTERVAL

\* C4 (as claimed): every change of the tracked identity to another one
\* issues a now-playing request for the new track in the same check.
C4_IdentityChangePushes ==
  [][ ( /\ out'.op = "checkTrack"
        /\ currentTrack # Null /\ currentTrack' # Null
        /\ currentTrack'.id # currentTrack.id )
      => \E m \in NowPlayingPushes(out') :
            m.track = currentTrack'.track /\ m.artist = currentTrack'.artist ]_vars

\* C5 (as claimed, for the scrobble): after the session's scrobble submission
\* failed, a check of the same, still playing track past the threshold submits
\* the scrobble again.
C5_FailedScrobbleRetried ==
  [][ ( /\ failedScrobble
        /\ out'.op = "checkTrack"
        /\ SameTrackShown /\ ~video.paused
        /\ currentTrack' = currentTrack
        /\ video.currentTime >= 240 /\ 2 * video.currentTime >= video.duration )
      => Scrobbles(out') # {} ]_vars

\* C6 (as claimed): the Last.fm shared secret is neither in the config literal
\* of the injected script nor in what the renderer sends over the signature
\* channel.
C6_SecretHostOnly ==
  /\ config.apiSecret # ApiSecret
  /\ \A m \in out.msgs : m.secret # ApiSecret

(***************************************************************************)
(* SpecInject: the plugins' onRendererLoaded hooks and what the injected   *)
(* scripts leave in the renderer context.  The plugins share no state, so  *)
(* each behaviour observes one plugin.  BrowserUI.ts holds two BrowserUI   *)
(* classes named 'browser-ui': the title-bar one (lines 462-873) and the   *)
(* overlay one (lines 10-452), called "browser-ui-overlay" here.           *)
(***************************************************************************)
Plugins ==
  {"discord-rpc", "lastfm", "listenbrainz", "browser-ui", "browser-ui-overlay",
   "better-lyrics", "volume-booster", "audio-output"}

LoadUrls == Urls \cup {"https://accounts.google.com/"}

\* url.includes('youtube.com')
IsYouTube(url) == url \in Urls

\* The script starts with: if (window.__xInjected) return; window.__xInjected = true;
ScriptHasMarker(p) == p \in {"discord-rpc", "audio-output"}

\* The script's own test of the config literal embedded in it; the AudioOutput
\* script has none.
ScriptConfigAllows(p, en, cred) ==
  CASE p \in {"lastfm", "listenbrainz"} -> en /\ cred
    [] p = "audio-output" -> TRUE
    [] OTHER -> en

\* setInterval calls on the script's start-up path.
ScriptIntervals(p) == IF p = "lastfm" THEN 2 ELSE 1

\* injectStyles (title-bar script)
injectStyles(c) == IF c.styles > 0 THEN c ELSE [c EXCEPT !.styles = @ + 1]

\* createTitleBar (title-bar script): the button container is a child of the bar.
createTitleBar_NoGuard(c) == [c EXCEPT !.titleBars = @ + 1, !.buttons = @ + 1]

createTitleBar(c) ==
  IF c.titleBars > 0 THEN c
  ELSE [c EXCEPT !.titleBars = @ + 1, !.buttons = @ + 1]

\* (mutant) init without createTitleBar
init_StylesOnly(c) == injectStyles(c)

\* init (title-bar script)
init(c) == createTitleBar(injectStyles(c))

\* injectTitleBarButtons (overlay script): getElementById(...).remove() takes
\* one node of each id away before the new ones are appended.
injectTitleBarButtons(c) ==
  [c EXCEPT !.buttons = (IF @ > 0 THEN @ - 1 ELSE @) + 1,
            !.styles = (IF @ > 0 THEN @ - 1 ELSE @) + 1]

\* What the body of plugin p's script does once past its guards, at URL url.
ScriptBody(p, url, c) ==
  CASE p = "browser-ui" ->
         [init(c) EXCEPT !.intervals = @ + 1, !.lastUrls = Append(@, url)]
    [] p = "browser-ui-overlay" ->
         [injectTitleBarButtons(c) EXCEPT
            !.timeouts = @ + 2, !.intervals = @ + 1, !.lastUrls = Append(@, url)]
    [] OTHER -> [c EXCEPT !.intervals = @ + ScriptIntervals(p)]

\* webContents.executeJavaScript(script): one run of plugin p's script in context c.
executeJavaScript(p, en, cred, url, c) ==
  LET c1 == [c EXCEPT !.executions = @ + 1] IN
    IF ScriptHasMarker(p) /\ c.marker THEN c1
    ELSE LET c2 == [c1 EXCEPT !.marker = ScriptHasMarker(p)] IN
           IF ScriptConfigAllows(p, en, cred) THEN ScriptBody(p, url, c2) ELSE c2

RECURSIVE executeTimes(_, _, _, _, _, _)
executeTimes(n, p, en, cred, url, c) ==
  IF n = 0 THEN c
  ELSE executeTimes(n - 1, p, en, cred, url, executeJavaScript(p, en, cred, url, c))

InitInject ==
  /\ plugin \in Plugins
  /\ pluginEnabled \in BOOLEAN
  /\ credentials \in BOOLEAN
  /\ pageUrl = "about:blank"
  /\ loads = 0
  /\ navs = 0
  /\ hookPending = FALSE
  /\ navHandlers = 0
  /\ reinjectTimers = 0
  /\ ctx = EmptyContext

hostInjectVars == <<plugin, pluginEnabled, credentials>>

\* The window loads a document: a fresh renderer context, and the host calls
\* the plugin's onRendererLoaded.
ContentLoaded(u) ==
  /\ loads < MaxLoads
  /\ loads' = loads + 1
  /\ pageUrl' = u
  /\ ctx' = EmptyContext
  /\ hookPending' = TRUE
  /\ UNCHANGED <<hostInjectVars, navs, navHandlers, reinjectTimers>>
  /\ UNCHANGED <<scrobblerVars, navVars, serverVars, integrationVars>>

\* A hook that returns at its guard.
HookReturns ==
  /\ hookPending' = FALSE
  /\ UNCHANGED <<hostInjectVars, pageUrl, loads, navs, navHandlers, reinjectTimers, ctx>>
  /\ UNCHANGED <<scrobblerVars, navVars, serverVars, integrationVars>>

\* A hook that executes the plugin's script and does nothing else, by
\* webContents.executeJavaScript or by BasePlugin's injectRendererScript.
HookInjects ==
  /\ hookPending' = FALSE
  /\ ctx' = executeJavaScript(plugin, pluginEnabled, credentials, pageUrl, ctx)
  /\ UNCHANGED <<hostInjectVars, pageUrl, loads, navs, navHandlers, reinjectTimers>>
  /\ UNCHANGED <<scrobblerVars, navVars, serverVars, integrationVars>>

DiscordRPC_onRendererLoaded ==
  /\ plugin = "discord-rpc" /\ hookPending
  /\ IF isEnabled([enabled |-> pluginEnabled]) /\ IsYouTube(pageUrl)
       THEN HookInjects ELSE HookReturns

LastFM_onRendererLoaded_injection ==
  /\ plugin = "lastfm" /\ hookPending
  /\ IF isEnabled([enabled |-> pluginEnabled]) /\ ApiKey # "" /\ credentials
       THEN HookInjects ELSE HookReturns

ListenBrainz_onRendererLoaded_injection ==
  /\ plugin = "listenbrainz" /\ hookPending
  /\ IF isEnabled([enabled |-> pluginEnabled]) /\ credentials
       THEN HookInjects ELSE HookReturns

BetterLyrics_onRendererLoaded ==
  /\ plugin = "better-lyrics" /\ hookPending
  /\ IF isEnabled([enabled |-> pluginEnabled]) THEN HookInjects ELSE HookReturns

VolumeBooster_onRendererLoaded ==
  /\ plugin = "volume-booster" /\ hookPending
  /\ IF isEnabled([enabled |-> pluginEnabled]) THEN HookInjects ELSE HookReturns

\* AudioOutput.onRendererLoaded has no guard.
AudioOutput_onRendererLoaded ==
  /\ plugin = "audio-output" /\ hookPending
  /\ HookInjects

\* BrowserUI.onRendererLoaded (title bar): executes the script and registers
\* one more 'did-navigate-in-page' listener on the window's webContents.
BrowserUI_onRendererLoaded ==
  /\ plugin = "browser-ui" /\ hookPending
  /\ IF isEnabled([enabled |-> pluginEnabled])
       THEN /\ hookPending' = FALSE
            /\ ctx' = executeJavaScript(plugin, pluginEnabled, credentials, pageUrl, ctx)
            /\ navHandlers' = navHandlers + 1
            /\ UNCHANGED <<hostInjectVars, pageUrl, loads, navs, reinjectTimers>>
            /\ UNCHANGED <<scrobblerVars, navVars, serverVars, integrationVars>>
       ELSE HookReturns

\* BrowserUI.onRendererLoaded (overlay): executes the script and arms the
\* 1500 ms re-injection.
BrowserUIOverlay_onRendererLoaded ==
  /\ plugin = "browser-ui-overlay" /\ hookPending
  /\ IF isEnabled([enabled |-> pluginEnabled]) /\ IsYouTube(pageUrl)
       THEN /\ hookPending' = FALSE
            /\ ctx' = executeJavaScript(plugin, pluginEnabled, credentials, pageUrl, ctx)
            /\ reinjectTimers' = reinjectTimers + 1
            /\ UNCHANGED <<hostInjectVars, pageUrl, loads, navs, navHandlers>>
            /\ UNCHANGED <<scrobblerVars, navVars, serverVars, integrationVars>>
       ELSE HookReturns

\* The 1500 ms timer of the overlay hook.
BrowserUIOverlay_reinject ==
  /\ reinjectTimers > 0
  /\ reinjectTimers' = reinjectTimers - 1
  /\ ctx' = IF IsYouTube(pageUrl)
              THEN executeJavaScript(plugin, pluginEnabled, credentials, pageUrl, ctx)
              ELSE ctx
  /\ UNCHANGED <<hostInjectVars, pageUrl, loads, navs, hookPending, navHandlers>>
  /\ UNCHANGED <<scrobblerVars, navVars, serverVars, integrationVars>>

\* The page navigates in place to u; webContents emits 'did-navigate-in-page'
\* and every listener BrowserUI registered executes the script again.
BrowserUI_didNavigateInPage(u) ==
  /\ loads > 0 /\ IsYouTube(pageUrl)
  /\ u # pageUrl
  /\ navs < MaxNavs
  /\ navs' = navs + 1
  /\ pageUrl' = u
  /\ ctx' = executeTimes(navHandlers, plugin, pluginEnabled, credentials, u, ctx)
  /\ UNCHANGED <<hostInjectVars, loads, hookPending, navHandlers, reinjectTimers>>
  /\ UNCHANGED <<scrobblerVars, navVars, serverVars, integrationVars>>

\* The resilience interval of the i-th running title-bar script.
BrowserUI_poll ==
  /\ plugin = "browser-ui"
  /\ \E i \in 1..Len(ctx.lastUrls) :
     LET c1 == IF ctx.titleBars = 0 THEN [init(ctx) EXCEPT !.restored = TRUE] ELSE ctx
         changed == pageUrl # ctx.lastUrls[i]
     IN /\ changed => ctx.timeouts < MaxTimeouts
        /\ ctx' = IF changed
                    THEN [c1 EXCEPT !.lastUrls[i] = pageUrl, !.timeouts = @ + 1]
                    ELSE c1
  /\ UNCHANGED <<hostInjectVars, pageUrl, loads, navs, hookPending, navHandlers,
                 reinjectTimers>>
  /\ UNCHANGED <<scrobblerVars, navVars, serverVars, integrationVars>>

\* setTimeout(() => { init(); ... }, 500) of the resilience interval.
BrowserUI_initTimeout ==
  /\ plugin = "browser-ui"
  /\ ctx.timeouts > 0
  /\ ctx' = [init(ctx) EXCEPT !.timeouts = @ - 1]
  /\ UNCHANGED <<hostInjectVars, pageUrl, loads, navs, hookPending, navHandlers,
                 reinjectTimers>>
  /\ UNCHANGED <<scrobblerVars, navVars, serverVars, integrationVars>>

\* The MutationObserver of the i-th running overlay script, on a URL change.
BrowserUIOverlay_observer ==
  /\ plugin = "browser-ui-overlay"
  /\ \E i \in 1..Len(ctx.lastUrls) :
       /\ pageUrl # ctx.lastUrls[i]
       /\ ctx' = [ctx EXCEPT !.lastUrls[i] = pageUrl, !.timeouts = @ + 1]
  /\ UNCHANGED <<hostInjectVars, pageUrl, loads, navs, hookPending, navHandlers,
                 reinjectTimers>>
  /\ UNCHANGED <<scrobblerVars, navVars, serverVars, integrationVars>>

\* setTimeout(injectTitleBarButtons, 500 | 1500 | 100) of the overlay script.
BrowserUIOverlay_injectTimeout ==
  /\ plugin = "browser-ui-overlay"
  /\ ctx.timeouts > 0
  /\ ctx' = [injectTitleBarButtons(ctx) EXCEPT !.timeouts = @ - 1]
  /\ UNCHANGED <<hostInjectVars, pageUrl, loads, navs, hookPending, navHandlers,
                 reinjectTimers>>
  /\ UNCHANGED <<scrobblerVars, navVars, serverVars, integrationVars>>

\* The foreign page re-renders and drops the injected bar / button container.
PageRemovesTitleBar ==
  /\ ctx.titleBars > 0 \/ ctx.buttons > 0
  /\ ctx' = [ctx EXCEPT !.titleBars = 0, !.buttons = 0, !.restored = FALSE]
  /\ UNCHANGED <<hostInjectVars, pageUrl, loads, navs, hookPending, navHandlers,
                 reinjectTimers>>
  /\ UNCHANGED <<scrobblerVars, navVars, serverVars, integrationVars>>

NextInject ==
  \/ \E u \in LoadUrls : ContentLoaded(u)
  \/ DiscordRPC_onRendererLoaded
  \/ LastFM_onRendererLoaded_injection
  \/ ListenBrainz_onRendererLoaded_injection
  \/ BetterLyrics_onRendererLoaded
  \/ VolumeBooster_onRendererLoaded
  \/ AudioOutput_onRendererLoaded
  \/ BrowserUI_onRendererLoaded
  \/ BrowserUIOverlay_onRendererLoaded
  \/ BrowserUIOverlay_reinject
  \/ \E u \in Urls : BrowserUI_didNavigateInPage(u)
  \/ BrowserUI_poll
  \/ BrowserUI_initTimeout
  \/ BrowserUIOverlay_observer
  \/ BrowserUIOverlay_injectTimeout
  \/ PageRemovesTitleBar

InitSpecInject == IdleScrobbler /\ InitInject /\ IdleNav /\ IdleServer /\ IdleIntegrations

SpecInject == InitSpecInject /\ [][NextInject]_vars

(***************************************************************************)
(* Injection claims (checked under SpecInject).                            *)
(***************************************************************************)
UiPlugins == {"browser-ui", "browser-ui-overlay"}

\* C7: while a plugin's config has enabled = false, no content-loaded event
\* makes the plugin's script execute in the renderer context.
C7_DisabledNeverInjected == ~pluginEnabled => ctx.executions = 0

\* C8: executing a plugin's script again in a context where it has already
\* run leaves the number of the plugin's active timers in that context
\* unchanged.
C8_ReinjectionIdempotent ==
  [][(ctx.executions >= 1 /\ ctx'.executions > ctx.executions)
       => ctx'.intervals = ctx.intervals]_vars

\* C9: after every step of BrowserUI (injection, re-injection, poll, timeout,
\* page re-render) the document holds at most one title bar, at most one
\* button container and at most one BrowserUI style node, and exactly one
\* button container and one style node right after the script has run or one
\* of its one-shot timers has fired.
ScriptRanOrTimerFired ==
  /\ loads' = loads
  /\ (ctx'.executions > ctx.executions \/ ctx'.timeouts < ctx.timeouts)

C9_SingleTitleBar ==
  [][(plugin \in UiPlugins) =>
       (/\ ctx'.titleBars <= 1
        /\ ctx'.buttons <= 1
        /\ ctx'.styles <= 1
        /\ (ScriptRanOrTimerFired => (ctx'.buttons = 1 /\ ctx'.styles = 1)))]_vars

\* The title-bar script has run three times in one context, the page has moved
\* to another URL, and there is one bar, one container and one style node.
C9_Witness ==
  /\ plugin = "browser-ui"
  /\ ctx.executions >= 3
  /\ ctx.intervals >= 3
  /\ ctx.titleBars = 1
  /\ ctx.buttons = 1
  /\ ctx.styles = 1

\* The timers of the renderer fire again and again: the resilience interval
\* and the one-shot timeouts it sets are run by the event loop.
SpecInjectFair ==
  /\ SpecInject
  /\ WF_vars(BrowserUI_poll)
  /\ WF_vars(BrowserUI_initTimeout)

\* The title-bar script is running in the context.
BrowserUI_active == plugin = "browser-ui" /\ ctx.intervals > 0

\* C34: while the title-bar script is active, a title bar the page has
\* removed is eventually present again (unless the window loads another
\* document first), and a step taken while the bar is present never leaves
\* more than the one bar.
C34_TitleBarRestored ==
  /\ (BrowserUI_active /\ ctx.titleBars = 0) ~> (ctx.titleBars > 0 \/ ~BrowserUI_active)
  /\ [][(BrowserUI_active /\ ctx.titleBars = 1 /\ loads' = loads)
          => ctx'.titleBars <= 1]_vars

\* C34 witness: the bar present was re-created by the resilience interval
\* after the page had removed it.
C34_Witness ==
  /\ BrowserUI_active
  /\ ctx.restored
  /\ ctx.titleBars = 1
  /\ ctx.buttons = 1

(***************************************************************************)
(* SpecNav: SharedRendererUtils, the navigation watcher and the media      *)
(* element discovery injected ahead of the plugins.                        *)
(***************************************************************************)
Callbacks == {"ok", "throws"}    \* a subscriber's callback returns or throws

\* A video-found callback that throws leaves the same state as one that
\* returns: checkForVideo catches it, and onVideoFound has already pushed the
\* callback and set videoFound when it calls it.
VideoCallbacks == {"ok"}

HistoryMethods == {"pushState", "replaceState"}

Zeros(n) == [i \in 1..n |-> 0]
Ones(n) == [i \in 1..n |-> 1]
Plus(f, g) == [i \in 1..Len(f) |-> f[i] + g[i]]

\* handleNavigation, with location.href = currentUrl: the new closure state,
\* the invocations of each navigation callback and the argument passed.  Each
\* callback runs inside try/catch.
handleNavigation_KeepsLastUrl(u, currentUrl) ==
  IF currentUrl # u.lastUrl
    THEN [utils |-> [u EXCEPT !.videoFound = FALSE],
          navCalls |-> Ones(Len(u.navigation)), url |-> currentUrl]
    ELSE [utils |-> u, navCalls |-> Zeros(Len(u.navigation)), url |-> ""]

handleNavigation(u, currentUrl) ==
  IF currentUrl # u.lastUrl
    THEN [utils |-> [u EXCEPT !.lastUrl = currentUrl, !.videoFound = FALSE],
          navCalls |-> Ones(Len(u.navigation)), url |-> currentUrl]
    ELSE [utils |-> u, navCalls |-> Zeros(Len(u.navigation)), url |-> ""]

\* (mutant) the new interval is set without clearing the previous one
resetInterval_NoClear(u, ms) ==
  [u EXCEPT !.timers = @ + 1, !.checkInterval = ms]

\* if (checkInterval) clearInterval(checkInterval); checkInterval = setInterval(..., ms)
resetInterval(u, ms) ==
  [u EXCEPT !.timers = (IF u.checkInterval # 0 THEN @ - 1 ELSE @) + 1,
            !.checkInterval = ms]

\* checkForVideo, with hasVideo = (document.querySelector('video') !== null).
checkForVideo(u, hasVideo) ==
  IF hasVideo /\ ~u.videoFound
    THEN [utils |-> resetInterval([u EXCEPT !.videoFound = TRUE], RELAXED_POLL),
          videoCalls |-> Ones(Len(u.videoFoundListeners)), discovered |-> TRUE]
  ELSE IF ~hasVideo
    THEN [utils |-> resetInterval([u EXCEPT !.videoFound = FALSE], AGGRESSIVE_POLL),
          videoCalls |-> Zeros(Len(u.videoFoundListeners)), discovered |-> FALSE]
  ELSE [utils |-> u, videoCalls |-> Zeros(Len(u.videoFoundListeners)),
        discovered |-> FALSE]

\* The subscribers still awaiting their first invocation after a step that
\* invoked them calls[i] times.
StillAwaiting(calls) ==
  [i \in 1..Len(navOut.awaiting) |-> navOut.awaiting[i] /\ calls[i] = 0]

\* The history of a step at which location.href becomes newHref and
\* handleNavigation runs `runs` times with the invocations navCalls.
NavHistory(newHref, runs, calls) ==
  IF newHref # locationHref
    THEN [sinceChange |-> calls, handled |-> runs]
    ELSE [sinceChange |-> Plus(navOut.sinceChange, calls),
          handled |-> IF navOut.handled + runs < 2 THEN navOut.handled + runs ELSE 2]

InitNav ==
  /\ utils = NoUtils
  /\ locationHref \in Urls
  /\ docVideo \in BOOLEAN
  /\ clickTimeouts = 0
  /\ navOut = NoNavOut
  /\ owed = <<>>

\* The utility script runs: if (window.BetterYouTubeUtils) return; ...
Utils_install ==
  /\ ~utils.installed
  /\ utils' = [installed |-> TRUE, lastUrl |-> locationHref, videoFound |-> FALSE,
               navigation |-> <<>>, videoFoundListeners |-> <<>>,
               checkInterval |-> AGGRESSIVE_POLL, timers |-> 1]
  /\ navOut' = [NoNavOut EXCEPT !.op = "install"]
  /\ UNCHANGED <<locationHref, docVideo, clickTimeouts>>
  /\ UNCHANGED <<owed, scrobblerVars, injectVars, serverVars, integrationVars>>

\* The page navigates before the utility script has patched history.
PageNavigatesUnwatched(u) ==
  /\ ~utils.installed
  /\ u # locationHref
  /\ locationHref' = u
  /\ UNCHANGED <<utils, docVideo, clickTimeouts, navOut>>
  /\ UNCHANGED <<owed, scrobblerVars, injectVars, serverVars, integrationVars>>

\* The page adds or removes its media element.
PageVideoToggles ==
  /\ docVideo' = ~docVideo
  /\ navOut' = [navOut EXCEPT !.op = "none",
                              !.navCalls = Zeros(Len(utils.navigation)),
                              !.videoCalls = Zeros(Len(utils.videoFoundListeners)),
                              !.url = "", !.discovered = FALSE]
  /\ UNCHANGED <<utils, locationHref, clickTimeouts>>
  /\ UNCHANGED <<owed, scrobblerVars, injectVars, serverVars, integrationVars>>

\* window.BetterYouTubeUtils.onNavigation(cb)
onNavigation(cb) ==
  /\ utils.installed
  /\ Len(utils.navigation) < MaxNavSubscribers
  /\ utils' = [utils EXCEPT !.navigation = Append(@, cb)]
  /\ navOut' = [op |-> "onNavigation",
                navCalls |-> Zeros(Len(utils.navigation) + 1),
                videoCalls |-> Zeros(Len(utils.videoFoundListeners)),
                url |-> "",
                sinceChange |-> Append(navOut.sinceChange, 0),
                handled |-> navOut.handled,
                discovered |-> FALSE, awaiting |-> navOut.awaiting]
  /\ UNCHANGED <<locationHref, docVideo, clickTimeouts>>
  /\ UNCHANGED <<owed, scrobblerVars, injectVars, serverVars, integrationVars>>

\* window.BetterYouTubeUtils.onVideoFound(cb)
onVideoFound_run(cb) ==
  /\ utils.installed
  /\ Len(utils.videoFoundListeners) < MaxVideoSubscribers
  /\ utils' = [utils EXCEPT !.videoFoundListeners = Append(@, cb),
                            !.videoFound = IF docVideo THEN TRUE ELSE @]
  /\ navOut' = [navOut EXCEPT
                  !.op = "onVideoFound",
                  !.navCalls = Zeros(Len(utils.navigation)),
                  !.videoCalls = Append(Zeros(Len(utils.videoFoundListeners)),
                                        IF docVideo THEN 1 ELSE 0),
                  !.url = "",
                  !.discovered = docVideo /\ ~utils.videoFound,
                  !.awaiting = Append(@, ~docVideo)]
  /\ UNCHANGED <<locationHref, docVideo, clickTimeouts>>
  /\ UNCHANGED <<scrobblerVars, injectVars, serverVars, integrationVars>>

onVideoFound(cb) == onVideoFound_run(cb) /\ UNCHANGED owed

\* The patched history.pushState / history.replaceState: the original, then
\* handleNavigation.
patch_run(type, u) ==
  /\ utils.installed
  /\ locationHref' = u
  /\ LET r == handleNavigation(utils, u)
         h == NavHistory(u, 1, r.navCalls)
     IN /\ utils' = r.utils
        /\ navOut' = [op |-> type, navCalls |-> r.navCalls,
                      videoCalls |-> Zeros(Len(utils.videoFoundListeners)),
                      url |-> r.url, sinceChange |-> h.sinceChange,
                      handled |-> h.handled,
                      discovered |-> FALSE, awaiting |-> navOut.awaiting]
  /\ UNCHANGED <<docVideo, clickTimeouts>>
  /\ UNCHANGED <<scrobblerVars, injectVars, serverVars, integrationVars>>

patch(type, u) == patch_run(type, u) /\ UNCHANGED owed

\* A history traversal to an entry with URL u: the 'popstate' listener.
popstate_run(u) ==
  /\ utils.installed
  /\ locationHref' = u
  /\ LET r == handleNavigation(utils, u)
         h == NavHistory(u, 1, r.navCalls)
     IN /\ utils' = r.utils
        /\ navOut' = [op |-> "popstate", navCalls |-> r.navCalls,
                      videoCalls |-> Zeros(Len(utils.videoFoundListeners)),
                      url |-> r.url, sinceChange |-> h.sinceChange,
                      handled |-> h.handled,
                      discovered |-> FALSE, awaiting |-> navOut.awaiting]
  /\ UNCHANGED <<docVideo, clickTimeouts>>
  /\ UNCHANGED <<scrobblerVars, injectVars, serverVars, integrationVars>>

popstate(u) == popstate_run(u) /\ UNCHANGED owed

\* The page dispatches 'yt-navigate-finish': handleNavigation, then
\* checkForVideo (the listeners in the order they were added).
ytNavigateFinish_run ==
  /\ utils.installed
  /\ LET r == handleNavigation(utils, locationHref)
         v == checkForVideo(r.utils, docVideo)
         h == NavHistory(locationHref, 1, r.navCalls)
     IN /\ utils' = v.utils
        /\ navOut' = [op |-> "yt-navigate-finish", navCalls |-> r.navCalls,
                      videoCalls |-> v.videoCalls,
                      url |-> r.url, sinceChange |-> h.sinceChange,
                      handled |-> h.handled,
                      discovered |-> v.discovered,
                      awaiting |-> StillAwaiting(v.videoCalls)]
  /\ UNCHANGED <<locationHref, docVideo, clickTimeouts>>
  /\ UNCHANGED <<scrobblerVars, injectVars, serverVars, integrationVars>>

ytNavigateFinish == ytNavigateFinish_run /\ UNCHANGED owed

\* The polling timer fires.
checkInterval_fires_run ==
  /\ utils.installed
  /\ utils.timers > 0
  /\ LET v == checkForVideo(utils, docVideo)
     IN /\ utils' = v.utils
        /\ navOut' = [navOut EXCEPT !.op = "poll",
                                    !.navCalls = Zeros(Len(utils.navigation)),
                                    !.videoCalls = v.videoCalls,
                                    !.url = "",
                                    !.discovered = v.discovered,
                                    !.awaiting = StillAwaiting(v.videoCalls)]
  /\ UNCHANGED <<locationHref, docVideo, clickTimeouts>>
  /\ UNCHANGED <<scrobblerVars, injectVars, serverVars, integrationVars>>

checkInterval_fires == checkInterval_fires_run /\ UNCHANGED owed

\* window 'click' listener: setTimeout(checkForVideo, 500)
click ==
  /\ utils.installed
  /\ clickTimeouts < MaxClicks
  /\ clickTimeouts' = clickTimeouts + 1
  /\ navOut' = [navOut EXCEPT !.op = "click",
                              !.navCalls = Zeros(Len(utils.navigation)),
                              !.videoCalls = Zeros(Len(utils.videoFoundListeners)),
                              !.url = "", !.discovered = FALSE]
  /\ UNCHANGED <<utils, locationHref, docVideo>>
  /\ UNCHANGED <<owed, scrobblerVars, injectVars, serverVars, integrationVars>>

\* The click listener's timeout fires.
click_timeout_run ==
  /\ clickTimeouts > 0
  /\ clickTimeouts' = clickTimeouts - 1
  /\ LET v == checkForVideo(utils, docVideo)
     IN /\ utils' = v.utils
        /\ navOut' = [navOut EXCEPT !.op = "click-timeout",
                                    !.navCalls = Zeros(Len(utils.navigation)),
                                    !.videoCalls = v.videoCalls,
                                    !.url = "",
                                    !.discovered = v.discovered,
                                    !.awaiting = StillAwaiting(v.videoCalls)]
  /\ UNCHANGED <<locationHref, docVideo>>
  /\ UNCHANGED <<scrobblerVars, injectVars, serverVars, integrationVars>>

click_timeout == click_timeout_run /\ UNCHANGED owed

NextNav ==
  \/ Utils_install
  \/ \E u \in Urls : PageNavigatesUnwatched(u)
  \/ PageVideoToggles
  \/ \E cb \in Callbacks : onNavigation(cb)
  \/ \E cb \in VideoCallbacks : onVideoFound(cb)
  \/ \E type \in HistoryMethods, u \in Urls : patch(type, u)
  \/ \E u \in Urls : popstate(u)
  \/ ytNavigateFinish
  \/ checkInterval_fires
  \/ click
  \/ click_timeout

InitSpecNav == IdleScrobbler /\ IdleInject /\ InitNav /\ IdleServer /\ IdleIntegrations

SpecNav == InitSpecNav /\ [][NextNav]_vars

(***************************************************************************)
(* Navigation claims (checked under SpecNav).                              *)
(***************************************************************************)
\* C10: a step that changes location.href invokes every registered
\* navigation callback exactly once, a step that does not change it invokes
\* none, and so no callback is invoked more than once for one URL change,
\* however many event sources report it.
C10_OncePerUrlChange ==
  [][(utils.installed /\ utils'.installed) =>
       \A i \in 1..Len(utils.navigation) :
          /\ navOut'.navCalls[i] = (IF locationHref' # locationHref THEN 1 ELSE 0)
          /\ navOut'.sinceChange[i] <= 1]_vars

\* Two subscribers, the first of which throws, have each been called once for
\* a URL change that two event sources have reported.
C10_Witness ==
  /\ utils.installed
  /\ utils.navigation = <<"throws", "ok">>
  /\ navOut.op = "yt-navigate-finish"
  /\ navOut.handled = 2
  /\ navOut.sinceChange = <<1, 1>>
  /\ navOut.navCalls = <<0, 0>>

(***************************************************************************)
(* Media-element discovery claims (checked under SpecNav).                 *)
(***************************************************************************)
\* C11: a step in which the watcher discovers the media element (goes from
\* not-found to found) invokes the video-found callback of every subscriber
\* registered before the step exactly once, and a step that is no discovery
\* invokes none of them.
C11_DiscoveryInvokesAll ==
  [][(utils.installed /\ utils'.installed) =>
       \A i \in 1..Len(utils.videoFoundListeners) :
          navOut'.videoCalls[i] = (IF navOut'.discovered THEN 1 ELSE 0)]_vars

\* C12: onVideoFound called while a media element is present invokes the new
\* subscriber at once; a poll that starts in the found state invokes nobody
\* again; and a poll that finds an element invokes every subscriber that
\* registered while there was none and has not been invoked since.
C12_LateSubscriberInvoked ==
  [][(utils.installed /\ utils'.installed) =>
       (/\ (navOut'.op = "onVideoFound" /\ docVideo)
              => navOut'.videoCalls[Len(utils'.videoFoundListeners)] = 1
        /\ (navOut'.op = "poll" /\ utils.videoFound)
              => \A i \in 1..Len(utils.videoFoundListeners) :
                    navOut'.videoCalls[i] = 0
        /\ (navOut'.op = "poll" /\ docVideo)
              => \A i \in 1..Len(utils.videoFoundListeners) :
                    navOut.awaiting[i] => navOut'.videoCalls[i] = 1)]_vars

\* C13: the watcher starts with the aggressive interval, takes the relaxed
\* one only in a step that discovers the element, goes back to the aggressive
\* one at any poll that finds no element, and has the relaxed interval
\* whenever it is in the found state.
C13_PollingIntervals ==
  [][utils'.installed =>
       (/\ ~utils.installed => utils'.checkInterval = AGGRESSIVE_POLL
        /\ (utils.installed /\ utils.checkInterval # RELAXED_POLL
              /\ utils'.checkInterval = RELAXED_POLL) => navOut'.discovered
        /\ (navOut'.op = "poll" /\ ~docVideo)
              => utils'.checkInterval = AGGRESSIVE_POLL
        /\ utils'.videoFound => utils'.checkInterval = RELAXED_POLL)]_vars

\* C35: once the utility script is installed exactly one polling timer is
\* active, whatever polls, navigation events, click-triggered checks and
\* subscriptions have happened; before, none is.
C35_OnePollingTimer == utils.timers = (IF utils.installed THEN 1 ELSE 0)

\* C35 witness: a click-triggered check has discovered the element and
\* replaced the aggressive interval by the relaxed one.
C35_Witness ==
  /\ navOut.op = "click-timeout"
  /\ navOut.discovered
  /\ utils.checkInterval = RELAXED_POLL
  /\ utils.timers = 1
  /\ Len(utils.videoFoundListeners) = 2

(***************************************************************************)
(* SpecServer: the CompanionServer plugin, its http.Server and the request *)
(* handler.                                                                *)
(***************************************************************************)
\* A request URL is kept as head \o tail, head being '/api/v1/auth' exactly
\* when the URL starts with it.
AuthPrefix == "/api/v1/auth"

Url(head, tail) == [head |-> head, tail |-> tail]
UrlText(u) == u.head \o u.tail
startsWith(u, prefix) == u.head = prefix

RequestUrls ==
  {Url("/api/v1/state", ""), Url("/query", ""),
   Url(AuthPrefix, "/requestcode"), Url(AuthPrefix, "/request"),
   Url(AuthPrefix, "/other"), Url(AuthPrefix, "orize"),
   Url("/api/v1/state", "/"), Url("/", "")}

Methods == {"GET", "POST", "OPTIONS"}

\* The videoInfo objects the main process passes to updateState.
VideoInfos ==
  {[title |-> "Song A", artist |-> "X", album |-> Some("LP"),
    songDuration |-> Some(180), elapsedSeconds |-> Some(90),
    isPaused |-> Some(FALSE), id |-> Some("v1")],
   [title |-> "Song A", artist |-> "X", album |-> Some("LP"),
    songDuration |-> Some(180), elapsedSeconds |-> Some(90),
    isPaused |-> Some(TRUE), id |-> Some("v1")],
   [title |-> "Song B", artist |-> "Y", album |-> None,
    songDuration |-> None, elapsedSeconds |-> Some(30),
    isPaused |-> Some(FALSE), id |-> Some("v2")],
   [title |-> "Song B", artist |-> "Y", album |-> None,
    songDuration |-> Some(0), elapsedSeconds |-> None,
    isPaused |-> None, id |-> None],
   [title |-> "Idle", artist |-> "X", album |-> None,
    songDuration |-> Some(200), elapsedSeconds |-> Some(50),
    isPaused |-> Some(TRUE), id |-> Some("v3")]}

StoredServerConfigs ==
  {[enabled |-> en, port |-> p] : en \in BOOLEAN, p \in {None, Some(DEFAULT_PORT + 1)}}

OrZero(o) == IF o.some THEN o.val ELSE 0
OrEmpty(o) == IF o.some THEN o.val ELSE ""

\* the truthiness of an optional boolean
Truthy(o) == o.some /\ o.val

RECURSIVE GCD(_, _)
GCD(a, b) == IF b = 0 THEN a ELSE GCD(b, a % b)

\* The number a / b of JavaScript, for non-negative integers: a fraction in
\* lowest terms, Infinity, or NaN.
Quotient(a, b) ==
  IF b = 0 THEN (IF a = 0 THEN [nan |-> TRUE] ELSE [infinity |-> TRUE])
  ELSE [num |-> a \div GCD(a, b), den |-> b \div GCD(a, b)]

Zero == [num |-> 0, den |-> 1]

\* CompanionServer.getConfig: { port: 9863, ...super.getConfig() }
CompanionServer_getConfig(st) ==
  [enabled |-> st.enabled,
   port |-> IF st.port.some THEN st.port.val ELSE DEFAULT_PORT]

\* const port = this.getConfig().port || 9863
ListenPort(st) ==
  LET cfg == CompanionServer_getConfig(st) IN
    IF cfg.port = 0 THEN DEFAULT_PORT ELSE cfg.port

\* updateState: the track record built from videoInfo.
TrackOf(videoInfo) ==
  [title |-> videoInfo.title,
   artist |-> videoInfo.artist,
   album |-> OrEmpty(videoInfo.album),
   duration |-> OrZero(videoInfo.songDuration),
   position |-> OrZero(videoInfo.elapsedSeconds),
   isPaused |-> videoInfo.isPaused,
   cover |-> "",
   id |-> videoInfo.id]

\* statePercent of handleStateRequest
statePercent_Unguarded(t) == Quotient(t.position, t.duration)

statePercent(t) ==
  IF t.duration > 0 THEN Quotient(t.position, t.duration) ELSE Zero

\* playState of handleStateRequest: the mapping of the object literal, then
\* the adjustment that follows it.
playState_Unadjusted(t) == IF Truthy(t.isPaused) THEN 0 ELSE 1

playState(t) == IF Truthy(t.isPaused) THEN 2 ELSE 1

Response(status, contentType, body, handler) ==
  [status |-> status, allowOrigin |-> "*", contentType |-> contentType,
   body |-> body, handler |-> handler]

handleStateRequest(t) ==
  Response(200, "application/json",
           [title |-> t.title, author |-> t.artist, album |-> t.album,
            duration |-> t.duration,
            statePercent |-> statePercent(t),
            playState |-> playState(t),
            seekbarCurrentPosition |-> t.position],
           "state")

handleAuthRequest(req) ==
  IF UrlText(req.url) = "/api/v1/auth/requestcode"
    THEN Response(200, "application/json", [code |-> "123456"], "auth")
  ELSE IF UrlText(req.url) = "/api/v1/auth/request"
    THEN Response(200, "application/json",
                  [token |-> "dummy-token", accessToken |-> "dummy-token"], "auth")
  ELSE Response(200, "", [success |-> TRUE], "auth")

\* req.method === 'OPTIONS'
isPreflight_Never(method) == FALSE

isPreflight(method) == method = "OPTIONS"

\* The request listener given to http.createServer.
handleRequest(req, t) ==
  IF isPreflight(req.method) THEN Response(204, "", Null, "options")
  ELSE IF UrlText(req.url) = "/api/v1/state" \/ UrlText(req.url) = "/query"
    THEN handleStateRequest(t)
  ELSE IF startsWith(req.url, AuthPrefix) THEN handleAuthRequest(req)
  ELSE Response(404, "", [error |-> "Not found"], "notfound")

\* startServer: the new this.server and the number of servers created.
startServer_NoGuard(srv, st) ==
  [server |-> [port |-> ListenPort(st), state |-> "binding"], created |-> 1]

startServer(srv, st) ==
  IF srv # Null THEN [server |-> srv, created |-> 0]
  ELSE [server |-> [port |-> ListenPort(st), state |-> "binding"], created |-> 1]

\* stopServer: the new this.server and the number of servers closed.
stopServer(srv) ==
  IF srv # Null THEN [server |-> Null, closed |-> 1]
  ELSE [server |-> srv, closed |-> 0]

InitServer ==
  /\ csStored \in StoredServerConfigs
  /\ server = Null
  /\ csTrack = IdleTrack
  /\ busyPorts \in {{}, {DEFAULT_PORT}}
  /\ liveServers = 0
  /\ csOut = NoCsOut

HookOut(op) ==
  [op |-> op, hadServer |-> server # Null, logged |-> FALSE,
   request |-> Null, response |-> Null]

\* The host's Config Store takes a new config for the plugin.
ConfigStore_set(st) ==
  /\ st # csStored
  /\ csStored' = st
  /\ csOut' = HookOut("config")
  /\ UNCHANGED <<server, csTrack, busyPorts, liveServers>>
  /\ UNCHANGED <<scrobblerVars, injectVars, navVars, integrationVars>>

CompanionServer_onAppReady ==
  /\ LET r == IF isEnabled(csStored) THEN startServer(server, csStored)
              ELSE [server |-> server, created |-> 0]
     IN /\ server' = r.server
        /\ liveServers' = liveServers + r.created
  /\ csOut' = HookOut("onAppReady")
  /\ UNCHANGED <<csStored, csTrack, busyPorts>>
  /\ UNCHANGED <<scrobblerVars, injectVars, navVars, integrationVars>>

CompanionServer_onDisabled ==
  /\ LET r == stopServer(server)
     IN /\ server' = r.server
        /\ liveServers' = liveServers - r.closed
  /\ csOut' = HookOut("onDisabled")
  /\ UNCHANGED <<csStored, csTrack, busyPorts>>
  /\ UNCHANGED <<scrobblerVars, injectVars, navVars, integrationVars>>

CompanionServer_onConfigChanged ==
  /\ IF isEnabled(csStored) /\ server = Null
       THEN LET r == startServer(server, csStored)
            IN /\ server' = r.server
               /\ liveServers' = liveServers + r.created
     ELSE IF ~isEnabled(csStored) /\ server # Null
       THEN LET r == stopServer(server)
            IN /\ server' = r.server
               /\ liveServers' = liveServers - r.closed
     ELSE UNCHANGED <<server, liveServers>>
  /\ csOut' = HookOut("onConfigChanged")
  /\ UNCHANGED <<csStored, csTrack, busyPorts>>
  /\ UNCHANGED <<scrobblerVars, injectVars, navVars, integrationVars>>

\* server.listen succeeds: the 'listening' callback.
server_listening ==
  /\ server # Null
  /\ server.state = "binding"
  /\ server.port \notin busyPorts
  /\ server' = [server EXCEPT !.state = "listening"]
  /\ csOut' = HookOut("listening")
  /\ UNCHANGED <<csStored, csTrack, busyPorts, liveServers>>
  /\ UNCHANGED <<scrobblerVars, injectVars, navVars, integrationVars>>

\* server.listen fails (EADDRINUSE): the 'error' listener logs the error.
server_error ==
  /\ server # Null
  /\ server.state = "binding"
  /\ server.port \in busyPorts
  /\ server' = [server EXCEPT !.state = "failed"]
  /\ csOut' = [HookOut("error") EXCEPT !.logged = TRUE]
  /\ UNCHANGED <<csStored, csTrack, busyPorts, liveServers>>
  /\ UNCHANGED <<scrobblerVars, injectVars, navVars, integrationVars>>

\* updateState(videoInfo), called by the main process.
updateState(videoInfo) ==
  /\ csTrack' = TrackOf(videoInfo)
  /\ csOut' = HookOut("updateState")
  /\ UNCHANGED <<csStored, server, busyPorts, liveServers>>
  /\ UNCHANGED <<scrobblerVars, injectVars, navVars, integrationVars>>

\* (mutant) serving a request puts the idle placeholder back
request_ResetsTrack(method, url) ==
  /\ server # Null
  /\ server.state = "listening"
  /\ LET req == [method |-> method, url |-> url]
     IN csOut' = [HookOut("request") EXCEPT
                    !.request = req, !.response = handleRequest(req, csTrack)]
  /\ csTrack' = IdleTrack
  /\ UNCHANGED <<csStored, server, busyPorts, liveServers>>
  /\ UNCHANGED <<scrobblerVars, injectVars, navVars, integrationVars>>

\* A client request reaches the listening server.
request(method, url) ==
  /\ server # Null
  /\ server.state = "listening"
  /\ LET req == [method |-> method, url |-> url]
     IN csOut' = [HookOut("request") EXCEPT
                    !.request = req, !.response = handleRequest(req, csTrack)]
  /\ UNCHANGED <<csStored, server, csTrack, busyPorts, liveServers>>
  /\ UNCHANGED <<scrobblerVars, injectVars, navVars, integrationVars>>

NextServer ==
  \/ \E st \in StoredServerConfigs : ConfigStore_set(st)
  \/ CompanionServer_onAppReady
  \/ CompanionServer_onDisabled
  \/ CompanionServer_onConfigChanged
  \/ server_listening
  \/ server_error
  \/ \E videoInfo \in VideoInfos : updateState(videoInfo)
  \/ \E method \in Methods, url \in RequestUrls : request(method, url)

InitSpecServer == IdleScrobbler /\ IdleInject /\ IdleNav /\ InitServer /\ IdleIntegrations

SpecServer == InitSpecServer /\ [][NextServer]_vars

StateResponse == csOut.op = "request" /\ csOut.response.handler = "state"

\* C14: the statePercent of a state response is position / duration when
\* the duration is greater than zero, and 0 otherwise.
C14_StatePercent ==
  StateResponse =>
    LET sp == csOut.response.body.statePercent IN
      IF csTrack.duration > 0
        THEN /\ DOMAIN sp = {"num", "den"}
             /\ sp.den > 0
             /\ sp.num * csTrack.duration = csTrack.position * sp.den
        ELSE sp = Zero

C14_Witness ==
  /\ StateResponse
  /\ csTrack.duration = 180
  /\ csTrack.position = 90
  /\ csOut.response.body.statePercent = [num |-> 1, den |-> 2]

\* C15: the playState of a state response is 2 when isPaused is true and 1
\* when it is false, the idle placeholder included.
C15_PlayState ==
  StateResponse =>
    /\ csTrack.isPaused = Some(TRUE) => csOut.response.body.playState = 2
    /\ csTrack.isPaused = Some(FALSE) => csOut.response.body.playState = 1
    /\ csTrack = IdleTrack => csOut.response.body.playState = 2

C15_Witness ==
  /\ StateResponse
  /\ csTrack = IdleTrack
  /\ csOut.response.body.playState = 2

KnownPaths ==
  {"/api/v1/state", "/query", "/api/v1/auth/requestcode", "/api/v1/auth/request"}

\* C16: a request whose method is not OPTIONS and whose path is none of the
\* four known paths is answered 404 with a JSON error body.
C16_UnknownPathIs404 ==
  (/\ csOut.op = "request"
   /\ csOut.request.method # "OPTIONS"
   /\ UrlText(csOut.request.url) \notin KnownPaths)
    => /\ csOut.response.status = 404
       /\ csOut.response.body = [error |-> "Not found"]

\* C17: an OPTIONS request on any path is answered 204 with no body and the
\* wildcard CORS header, and reaches no other handler.
C17_Preflight ==
  (csOut.op = "request" /\ csOut.request.method = "OPTIONS")
    => /\ csOut.response.status = 204
       /\ csOut.response.body = Null
       /\ csOut.response.allowOrigin = "*"
       /\ csOut.response.handler = "options"

C17_Witness ==
  /\ csOut.op = "request"
  /\ csOut.request.method = "OPTIONS"
  /\ UrlText(csOut.request.url) = "/api/v1/state"
  /\ csOut.response.status = 204

\* C18: starting and stopping are idempotent: at most one listener exists
\* after any sequence of onAppReady, onConfigChanged and onDisabled.
C18_AtMostOneListener ==
  /\ liveServers \in {0, 1}
  /\ (server = Null) <=> (liveServers = 0)

C18_Witness ==
  /\ csOut.op = "onAppReady"
  /\ csOut.hadServer
  /\ isEnabled(csStored)
  /\ liveServers = 1

\* C19: when the configured port differs from the port of the running
\* listener while the plugin is enabled, onConfigChanged leaves a listener on
\* the configured port.
C19_PortChangeRestarts ==
  [][(/\ csOut'.op = "onConfigChanged"
      /\ isEnabled(csStored)
      /\ server # Null
      /\ server.state = "listening"
      /\ server.port # ListenPort(csStored))
       => (/\ server' # Null
           /\ server'.port = ListenPort(csStored))]_vars

\* C20: after a failed bind the error is logged and the plugin holds no
\* server handle, so that a later enable or config change starts a server.
C20_BindFailureLeavesStopped ==
  [][csOut'.op = "error" => (csOut'.logged /\ server' = Null)]_vars

(***************************************************************************)
(* Further claims about the scrobbler session (under Spec).                *)
(***************************************************************************)
\* C21: a navigation-away event resets the session to Idle (no current
\* track, scrobbled flag false, no start timestamp) and submits no scrobble
\* for the abandoned track, whatever its playback position.
C21_NavigationResetsSession ==
  out.op = "navigation" =>
    /\ currentTrack = Null
    /\ ~scrobbled
    /\ startTime = 0
    /\ sessionScrobbles = 0
    /\ out.msgs = {}

\* C21 witness: the navigation watcher abandoned a tracked, not yet scrobbled
\* track whose position was past the threshold.
C21_Witness ==
  /\ out.op = "navigation"
  /\ out.abandoned # Null
  /\ currentTrack = Null
  /\ video.present /\ video.currentTime = 500 /\ video.duration = 1000

\* C22 (as claimed): in each adapter, a check that finds neither the track
\* identity nor the media element resets the session to Idle and submits no
\* scrobble.
C22_UnlocatableResetsSession ==
  [][ ( /\ out'.op = "checkTrack"
        /\ getTrackInfo = Null
        /\ ~video.present )
      => /\ currentTrack' = Null
         /\ ~scrobbled'
         /\ startTime' = 0
         /\ Scrobbles(out') = {} ]_vars

IdentityChanged ==
  /\ out'.op = "checkTrack"
  /\ currentTrack' # Null
  /\ (currentTrack = Null \/ currentTrack'.id # currentTrack.id)

\* C23: on every identity change the session is replaced wholesale: the start
\* timestamp is the time of the change, the scrobbled flag is false until the
\* new track itself is scrobbled, which depends on the playback position alone
\* and not on the previous track's flag; whatever is scrobbled from then on
\* carries the new identity, never the previous one.
C23_SessionReplacedOnChange ==
  [][ /\ IdentityChanged =>
           /\ startTime' = now
           /\ scrobbled' = (Scrobbles(out') # {})
           /\ (Scrobbles(out') # {}) <=>
                 (/\ video.currentTime > 0
                  /\ 2 * video.currentTime >= Max(video.duration, 2 * MIN_SCROBBLE_SECONDS))
           /\ \A m \in Scrobbles(out') : m.timestamp = now \div 1000
      /\ \A m \in Scrobbles(out') :
           /\ currentTrack' # Null
           /\ m.track = currentTrack'.track
           /\ m.artist = currentTrack'.artist ]_vars

\* C23 witness: a check replaced a scrobbled track by another one and
\* scrobbled the new track in the same check.
C23_Witness ==
  /\ out.op = "checkTrack"
  /\ out.replaced # Null
  /\ out.replaced.currentTrack # Null
  /\ out.replaced.scrobbled
  /\ currentTrack.id # out.replaced.currentTrack.id
  /\ Scrobbles(out) # {}
  /\ scrobbled
  /\ startTime = now

\* C31 (as claimed): when the navigation watcher has reset a session that
\* had been scrobbled, and the page still shows that track on its media
\* element, the checkTrack that follows submits no scrobble.
C31_NoScrobbleAfterNavigation ==
  [][(/\ out.op = "navigation"
      /\ out.abandoned # Null
      /\ out.scrobbled
      /\ out'.op = "checkTrack"
      /\ video.present
      /\ getTrackInfo # Null
      /\ trackId(getTrackInfo) = out.abandoned.id)
       => Scrobbles(out') = {}]_vars

(***************************************************************************)
(* SpecProxy: the scrobbler scripts with the proxy channel.  A request     *)
(* issued by scrobble(), updateNowPlaying() or submitListen() stays in     *)
(* flight until the host has answered; the script goes on meanwhile.       *)
(***************************************************************************)
\* (mutant) a failed reply ends the script
SoftFailure_Crashes(scr, result) == IF result # "ok" THEN "crashed" ELSE scr

\* The script after the reply to a request: getSignature, makeRequest and
\* submitListen catch what the host rejects and return null/false, and their
\* callers only log the result.
SoftFailure(scr, result) == scr

\* (mutant) the body is built from the session at the time of the POST
Post_CurrentSession(req) ==
  IF currentTrack = Null
    THEN [artist |-> "", track |-> "", album |-> "", timestamp |-> 0]
    ELSE [artist |-> currentTrack.artist, track |-> currentTrack.track,
          album |-> currentTrack.album,
          timestamp |-> IF IsScrobble(req) THEN startTime \div 1000 ELSE 0]

\* The body of the proxied POST: the params object built when scrobble(),
\* updateNowPlaying() or submitListen() was called.
Post(req) ==
  [artist |-> req.artist, track |-> req.track, album |-> req.album,
   timestamp |-> req.timestamp]

\* The outcome of a request in flight is not known yet.
InFlight == "in_flight"

\* The requests a step has issued go in flight, a scrobble with the session
\* as it was when the step ended.
Proxy_send ==
  LET sent == {[req |-> m, session |-> IF IsScrobble(m) THEN Session' ELSE Null] :
                 m \in out'.msgs} IN
    /\ Cardinality(pending \cup sent) <= MaxInFlight
    /\ pending' = pending \cup sent
    /\ lastPushed' =
         [i \in TrackIds |->
            IF \E m \in NowPlayingPushes(out') : trackId(m) = i
              THEN now ELSE lastPushed[i]]
    /\ UNCHANGED failedReply

LastFM_checkTrack_proxied ==
  /\ LastFM_checkTrack_run(InFlight, InFlight)
  /\ Proxy_send

ListenBrainz_checkTrack_proxied ==
  /\ ListenBrainz_checkTrack_run(InFlight, InFlight)
  /\ Proxy_send

\* The host answers a request in flight (the signature request of LastFM
\* first: when it fails nothing is posted).
Proxy_reply ==
  \E e \in pending :
  \E result \in (IF adapter = "lastfm" THEN LastFM_Results ELSE ListenBrainz_Results) :
    /\ pending' = pending \ {e}
    /\ failedReply' = (failedReply \/ result # "ok")
    /\ script' = SoftFailure(script, result)
    /\ out' = [op |-> "reply", msgs |-> {},
                req |-> [e.req EXCEPT !.result = result], session |-> e.session,
                body |-> IF result = "no_signature" THEN Null ELSE Post(e.req)]
    /\ UNCHANGED <<injectVars, navVars, serverVars, integrationVars, hostVars, now, pageVars,
                   config, lastUrl, videoListeners, sessionVars, historyVars,
                   lastPushed>>

ProxyVideoStates ==
  {NoVideo, VideoAt(<<150, 300>>, FALSE), VideoAt(<<240, 300>>, FALSE)}

\* Time passes while the channel is observed.
Proxy_tick ==
  /\ now < Epoch + MaxProxyTicks * ClockStep
  /\ Tick

InitSpecProxy ==
  /\ IdleProxy
  /\ adapter \in Adapters
  /\ stored = [enabled |-> TRUE, sessionKey |-> "sk", token |-> "tok"]
  /\ script = "none"
  /\ config = NoConfig
  /\ now = Epoch
  /\ video = NoVideo
  /\ pageTrack = Null
  /\ href = "https://music.youtube.com/"
  /\ currentTrack = Null
  /\ scrobbled = FALSE
  /\ startTime = 0
  /\ lastUpdateTime = 0
  /\ lastUrl = href
  /\ videoListeners = FALSE
  /\ out = NoOut
  /\ sessionScrobbles = 0
  /\ failedScrobble = FALSE
  /\ IdleInject
  /\ IdleNav
  /\ IdleServer
  /\ IdleIntegrations

NextProxy ==
  \/ Proxy_tick
  \/ \E v \in ProxyVideoStates : PageVideo(v)
  \/ \E m \in Tracks \cup {Null} : PageTrack(m)
  \/ \E u \in Urls : PageNavigate(u)
  \/ LastFM_onRendererLoaded
  \/ LastFM_setupWatcher
  \/ LastFM_checkTrack_proxied
  \/ LastFM_navigationPoll
  \/ ListenBrainz_onRendererLoaded
  \/ ListenBrainz_setupWatcher
  \/ ListenBrainz_checkTrack_proxied
  \/ Proxy_reply

SpecProxy == InitSpecProxy /\ [][NextProxy]_vars

(***************************************************************************)
(* Claims about the proxy channel (under SpecProxy).                       *)
(***************************************************************************)
\* C24 (as claimed): in both adapters a now-playing request for a track
\* identity is issued at most once per 30 s window, also when the detected
\* identity alternates between two tracks inside the window.
C24_NowPlayingOncePerWindow ==
  [][ \A m \in NowPlayingPushes(out') :
        \/ lastPushed[trackId(m)] = 0
        \/ now - lastPushed[trackId(m)] >= UPDATE_INTERVAL ]_vars

C30_ScrobbleCarriesSession ==
  [][ /\ \A m \in Scrobbles(out') :
           /\ currentTrack' # Null
           /\ m.artist = currentTrack'.artist
           /\ m.track = currentTrack'.track
           /\ m.timestamp = startTime' \div 1000
      /\ ( /\ currentTrack # Null
           /\ currentTrack' # Null
           /\ currentTrack'.id = currentTrack.id )
         => startTime' = startTime
      /\ ( /\ out'.op = "reply"
           /\ IsScrobble(out'.req)
           /\ out'.body # Null )
         => /\ out'.body.artist = out'.session.currentTrack.artist
            /\ out'.body.track = out'.session.currentTrack.track
            /\ out'.body.timestamp = out'.session.startTime \div 1000 ]_vars

\* C30 witness: the scrobble of a track is posted after another track has
\* replaced it, with the replaced track's name and start timestamp.
C30_Witness ==
  /\ out.op = "reply"
  /\ IsScrobble(out.req)
  /\ out.body # Null
  /\ currentTrack # Null
  /\ currentTrack.id # out.session.currentTrack.id
  /\ startTime # out.session.startTime
  /\ out.body.track = out.session.currentTrack.track
  /\ out.body.timestamp = out.session.startTime \div 1000

(***************************************************************************)
(* SpecIdentity: the track identity.  The scripts watch a page that shows, *)
(* one after the other, tracks that differ in title, artist or album.      *)
(***************************************************************************)
Track(track, artist, album) == [track |-> track, artist |-> artist, album |-> album]

IdentityTracks ==
  {Track("Song A", "X", "LP"), Track("Song A", "X", "EP"),
   Track("Song A", "Y", "LP"), Track("Song B", "X", "LP"),
   Track("song a", "X", "LP"),
   Track("A|B", "C", ""), Track("A", "B|C", "")}

InitSpecIdentity ==
  /\ IdleProxy
  /\ adapter \in Adapters
  /\ stored = [enabled |-> TRUE, sessionKey |-> "sk", token |-> "tok"]
  /\ script = "none"
  /\ config = NoConfig
  /\ now = Epoch
  /\ video = VideoAt(<<150, 300>>, FALSE)
  /\ pageTrack \in IdentityTracks
  /\ href = "https://music.youtube.com/"
  /\ currentTrack = Null
  /\ scrobbled = FALSE
  /\ startTime = 0
  /\ lastUpdateTime = 0
  /\ lastUrl = href
  /\ videoListeners = FALSE
  /\ out = NoOut
  /\ sessionScrobbles = 0
  /\ failedScrobble = FALSE
  /\ IdleInject
  /\ IdleNav
  /\ IdleServer
  /\ IdleIntegrations

NextIdentity ==
  \/ \E m \in IdentityTracks : PageTrack(m)
  \/ LastFM_onRendererLoaded
  \/ LastFM_setupWatcher
  \/ LastFM_checkTrack("ok", "ok")
  \/ ListenBrainz_onRendererLoaded
  \/ ListenBrainz_setupWatcher
  \/ ListenBrainz_checkTrack("ok", "ok")

SpecIdentity == InitSpecIdentity /\ [][NextIdentity]_vars

\* C26 (as claimed): a check detects a new-track transition exactly when the
\* track shown differs from the tracked one in title or in artist
\* (case-sensitively); a change of album alone is no transition.
C26_IdentityIsTitleAndArtist ==
  [][ ( /\ out'.op = "checkTrack"
        /\ currentTrack # Null
        /\ getTrackInfo # Null
        /\ video.present )
      => ( (out'.replaced # Null) <=>
             ( \/ getTrackInfo.track # currentTrack.track
               \/ getTrackInfo.artist # currentTrack.artist ) ) ]_vars

(***************************************************************************)
(* SpecConfig: getConfig of the plugins.  A config object is a function    *)
(* from its keys to an optional value (None: the key is absent).           *)
(***************************************************************************)
ConfigKeys ==
  {"enabled", "apiKey", "apiSecret", "sessionKey", "username", "token", "port"}

EmptyObject == [k \in ConfigKeys |-> None]

\* { ...a, ...b }: the keys of b win.
Spread(a, b) == [k \in ConfigKeys |-> IF b[k].some THEN b[k] ELSE a[k]]

\* What the Config Store holds for a plugin.
PersistedConfigs ==
  {[EmptyObject EXCEPT !["enabled"] = en, !["apiKey"] = ak, !["sessionKey"] = sk,
                       !["token"] = tk, !["port"] = pt] :
     en \in {None, Some(TRUE), Some(FALSE)},
     ak \in {None, Some("user-key")},
     sk \in {None, Some("sk")},
     tk \in {None, Some("tok")},
     pt \in {None, Some(DEFAULT_PORT + 1)}}

\* BasePlugin.getConfig: the persisted config of the plugin.
BasePlugin_getConfig(persisted) == persisted

ConfigPlugins ==
  {"lastfm", "lastfm-direct", "listenbrainz", "companion-server", "browser-ui"}

\* getConfig of plugin p.  LastFM_getConfig, ListenBrainz_getConfig and
\* CompanionServer_getConfig above are its restrictions to the keys the
\* scripts and the server read.
getConfig(p, persisted) ==
  LET base == BasePlugin_getConfig(persisted) IN
  CASE p = "lastfm" ->
         Spread(Spread([EmptyObject EXCEPT !["sessionKey"] = Some(""),
                                           !["username"] = Some("")], base),
                [EmptyObject EXCEPT !["apiKey"] = Some(ApiKey),
                                    !["apiSecret"] = Some(ApiSecret)])
    [] p = "lastfm-direct" ->
         Spread([EmptyObject EXCEPT !["apiKey"] = Some(""), !["apiSecret"] = Some(""),
                                    !["sessionKey"] = Some("")], base)
    [] p = "listenbrainz" ->
         Spread([EmptyObject EXCEPT !["token"] = Some("")], base)
    [] p = "companion-server" ->
         Spread([EmptyObject EXCEPT !["port"] = Some(DEFAULT_PORT)], base)
    [] p = "browser-ui" ->
         Spread(base, [EmptyObject EXCEPT
                         !["enabled"] = Some(base["enabled"] # Some(FALSE))])

\* The author defaults of plugin p.
AuthorDefaults(p) ==
  CASE p = "lastfm" ->
         [EmptyObject EXCEPT !["apiKey"] = Some(ApiKey), !["apiSecret"] = Some(ApiSecret),
                             !["sessionKey"] = Some(""), !["username"] = Some("")]
    [] p = "lastfm-direct" ->
         [EmptyObject EXCEPT !["apiKey"] = Some(""), !["apiSecret"] = Some(""),
                             !["sessionKey"] = Some("")]
    [] p = "listenbrainz" -> [EmptyObject EXCEPT !["token"] = Some("")]
    [] p = "companion-server" -> [EmptyObject EXCEPT !["port"] = Some(DEFAULT_PORT)]
    [] p = "browser-ui" -> [EmptyObject EXCEPT !["enabled"] = Some(TRUE)]

InitConfig ==
  /\ csStored \in PersistedConfigs
  /\ server = Null
  /\ csTrack = IdleTrack
  /\ busyPorts = {}
  /\ liveServers = 0
  /\ csOut = NoCsOut

\* The Config Store persists a new config for the plugin.
ConfigStore_persist(persisted) ==
  /\ persisted # csStored
  /\ csStored' = persisted
  /\ csOut' = NoCsOut
  /\ UNCHANGED <<server, csTrack, busyPorts, liveServers>>
  /\ UNCHANGED <<scrobblerVars, injectVars, navVars, integrationVars>>

\* this.getConfig() of plugin p.
Plugin_getConfig(p) ==
  /\ csOut' = [op |-> "getConfig", plugin |-> p, merged |-> getConfig(p, csStored)]
  /\ UNCHANGED <<csStored, server, csTrack, busyPorts, liveServers>>
  /\ UNCHANGED <<scrobblerVars, injectVars, navVars, integrationVars>>

NextConfig ==
  \/ \E persisted \in PersistedConfigs : ConfigStore_persist(persisted)
  \/ \E p \in ConfigPlugins : Plugin_getConfig(p)

InitSpecConfig == IdleScrobbler /\ IdleInject /\ IdleNav /\ InitConfig /\ IdleIntegrations

SpecConfig == InitSpecConfig /\ [][NextConfig]_vars

\* C27 (as claimed): getConfig returns, for every key of the persisted
\* config, the persisted value, and for every other key the author default.
C27_DefaultsMerge ==
  csOut.op = "getConfig" =>
    \A k \in ConfigKeys :
      csOut.merged[k] =
        (IF csStored[k].some THEN csStored[k] ELSE AuthorDefaults(csOut.plugin)[k])

\* ---------------------------------------------------------------------------
\* SpecFormat: CompanionServer.formatTime applied to durations and positions.
\* A number of seconds is a fraction in lowest terms, NaN, or absent.
\* ---------------------------------------------------------------------------

MaxHalfSeconds == 250

IsFinite(x) == "num" \in DOMAIN x

\* !seconds: undefined, NaN and 0 are falsy
Falsy(x) == ~IsFinite(x) \/ x.num = 0

\* isNaN(seconds): undefined converts to NaN
isNaN(x) == ~IsFinite(x)

\* Math.floor(x / k) and Math.floor(x % k) for a finite x >= 0 and an integer k > 0
FloorDiv(x, k) == x.num \div (x.den * k)
FloorMod(x, k) == (x.num % (x.den * k)) \div x.den

Digits == <<"0", "1", "2", "3", "4", "5", "6", "7", "8", "9">>

\* Number.prototype.toString of a non-negative integer
RECURSIVE toString(_)
toString(n) ==
  IF n < 10 THEN Digits[n + 1] ELSE toString(n \div 10) \o Digits[(n % 10) + 1]

\* String.prototype.padStart with a one-character pad string
padStart_NoPadding(str, targetLength, padString) == str

RECURSIVE padStart(_, _, _)
padStart(str, targetLength, padString) ==
  IF Len(str) >= targetLength THEN str
  ELSE padStart(padString \o str, targetLength, padString)

formatTime(seconds) ==
  IF Falsy(seconds) \/ isNaN(seconds) THEN "0:00"
  ELSE LET mins == FloorDiv(seconds, 60)
           secs == FloorMod(seconds, 60)
       IN toString(mins) \o ":" \o padStart(toString(secs), 2, "0")

\* The durations and positions formatted: every half second of the first
\* minutes, some long ones, NaN and an absent value.
LongSeconds == {599, 600, 3599, 3600, 3661, 36000, 360000}

SecondsInputs ==
  {Quotient(h, 2) : h \in 0..MaxHalfSeconds}
    \cup {Quotient(n, 1) : n \in LongSeconds}
    \cup {[nan |-> TRUE], None}

CompanionServer_formatTime(seconds) ==
  /\ csOut' = [op |-> "formatTime", seconds |-> seconds, text |-> formatTime(seconds)]
  /\ UNCHANGED <<csStored, server, csTrack, busyPorts, liveServers>>
  /\ UNCHANGED <<scrobblerVars, injectVars, navVars, integrationVars>>

NextFormat == \E seconds \in SecondsInputs : CompanionServer_formatTime(seconds)

InitSpecFormat == IdleScrobbler /\ IdleInject /\ IdleNav /\ InitServer /\ IdleIntegrations

SpecFormat == InitSpecFormat /\ [][NextFormat]_vars

Owed_track ==
  owed' = [i \in 1..Len(utils'.videoFoundListeners) |->
             /\ i <= Len(owed)
             /\ (locationHref' # locationHref \/ owed[i])
             /\ navOut'.videoCalls[i] = 0]

onVideoFound_tracked == \E cb \in VideoCallbacks : onVideoFound_run(cb) /\ Owed_track

patch_tracked ==
  \E type \in HistoryMethods, u \in Urls : patch_run(type, u) /\ Owed_track

popstate_tracked == \E u \in Urls : popstate_run(u) /\ Owed_track

ytNavigateFinish_tracked == ytNavigateFinish_run /\ Owed_track

checkInterval_fires_tracked == checkInterval_fires_run /\ Owed_track

click_timeout_tracked == click_timeout_run /\ Owed_track

NextNavReset ==
  \/ Utils_install
  \/ \E u \in Urls : PageNavigatesUnwatched(u)
  \/ PageVideoToggles
  \/ \E cb \in Callbacks : onNavigation(cb)
  \/ onVideoFound_tracked
  \/ patch_tracked
  \/ popstate_tracked
  \/ ytNavigateFinish_tracked
  \/ checkInterval_fires_tracked
  \/ click
  \/ click_timeout_tracked

InitSpecNavReset == IdleScrobbler /\ IdleInject /\ InitNav /\ IdleServer /\ IdleIntegrations

SpecNavReset == InitSpecNavReset /\ [][NextNavReset]_vars

\* C29 (as claimed): a step in which the watcher detects a URL change passes
\* the new URL to every navigation callback and leaves the watcher in the
\* not-found state unless the same step reports the element; and a poll that
\* runs while a media element is present reports it, as a discovery, to every
\* video-found subscriber not invoked since the last URL change.
C29_NavigationResetsDiscovery ==
  [][(utils.installed /\ utils'.installed) =>
       (/\ locationHref' # locationHref
             => /\ \A i \in 1..Len(utils.navigation) : navOut'.navCalls[i] = 1
                /\ navOut'.url = locationHref'
                /\ utils'.videoFound => navOut'.discovered
        /\ (navOut'.op = "poll" /\ docVideo)
             => \A i \in 1..Len(owed) :
                   owed[i] => (navOut'.discovered /\ navOut'.videoCalls[i] = 1))]_vars

\* ---------------------------------------------------------------------------
\* A further claim about the query server (under SpecServer).
\* ---------------------------------------------------------------------------

\* C33: the stored track changes only in updateState, which stores the
\* record built from its argument, and a state query answers with the stored
\* track: requests, listener start and stop, and config changes leave it alone.
C33_StateOnlyThroughUpdateState ==
  [][/\ csTrack' # csTrack => csOut'.op = "updateState"
     /\ csOut'.op = "updateState" => \E videoInfo \in VideoInfos : csTrack' = TrackOf(videoInfo)
     /\ (csOut'.op = "request" /\ csOut'.response.handler = "state")
          => LET body == csOut'.response.body IN
               /\ body.title = csTrack.title
               /\ body.author = csTrack.artist
               /\ body.album = csTrack.album
               /\ body.duration = csTrack.duration
               /\ body.seekbarCurrentPosition = csTrack.position]_vars

\* C33 witness: a state query is answered with the track stored by the last
\* updateState.
C33_Witness ==
  /\ csOut.op = "request"
  /\ csOut.response.handler = "state"
  /\ liveServers = 1
  /\ csTrack.title = "Song B"
  /\ csOut.response.body.title = "Song B"
  /\ csOut.response.body.seekbarCurrentPosition = 30

\* ---------------------------------------------------------------------------
\* SpecRpc: the DiscordRPC renderer script, the page it watches and the
\* messages it sends to the host.
\* ---------------------------------------------------------------------------

MaxNavTimeouts == 1     \* pending setTimeout(updateDiscordRPC, 500) of the navigation callback

CLEAR == "discord-rpc-clear"
UPDATE == "discord-rpc-update-video"

\* The pages: a media element or none, the ?v= parameter, the title the
\* selectors and document.title give, and whether the preload exposes
\* window.electronAPI.invoke.
RpcPages ==
  [video : BOOLEAN, paused : BOOLEAN, v : {"", "a", "b"}, title : {"", "Song"},
   api : BOOLEAN]

\* getVideoInfo: null without a media element; id is the ?v= parameter or, failing
\* that, the title.
getVideoInfo(page) ==
  IF ~page.video THEN Null
  ELSE [id |-> IF page.v # "" THEN page.v ELSE page.title, title |-> page.title,
        isPaused |-> page.paused]

\* window.electronAPI.invoke(channel, ...), if the API is there
invoke(page, channel) == IF page.api THEN <<channel>> ELSE <<>>

\* (mutant) the clear message is sent at every check that finds nothing
updateDiscordRPC_ClearsWhenIdle(r, page, t) ==
  LET r0 == [r EXCEPT !.updateTimeout = FALSE]
      videoInfo == getVideoInfo(page)
  IN IF videoInfo = Null \/ videoInfo.id = ""
       THEN [rpc |-> [r0 EXCEPT !.currentVideoId = "", !.startTime = 0],
             msgs |-> invoke(page, CLEAR)]
       ELSE [rpc |-> [r0 EXCEPT !.currentVideoId = videoInfo.id,
                                !.startTime = IF videoInfo.id # r.currentVideoId THEN t ELSE @,
                                !.updateTimeout = (videoInfo.title = "")],
             msgs |-> invoke(page, UPDATE)]

\* updateDiscordRPC at time t: the closure afterwards and the messages sent.
\* currentVideoId "" and startTime 0 stand for null.
updateDiscordRPC(r, page, t) ==
  LET r0 == [r EXCEPT !.updateTimeout = FALSE]
      videoInfo == getVideoInfo(page)
  IN IF videoInfo = Null \/ videoInfo.id = ""
       THEN IF r.currentVideoId # ""
              THEN [rpc |-> [r0 EXCEPT !.currentVideoId = "", !.startTime = 0],
                    msgs |-> invoke(page, CLEAR)]
              ELSE [rpc |-> r0, msgs |-> <<>>]
       ELSE [rpc |-> [r0 EXCEPT !.currentVideoId = videoInfo.id,
                                !.startTime = IF videoInfo.id # r.currentVideoId THEN t ELSE @,
                                !.updateTimeout = (videoInfo.title = "")],
             msgs |-> invoke(page, UPDATE)]

\* The history after a step that sent msgs.
RpcSent(op, msgs) ==
  [op |-> op, msgs |-> msgs,
   lastSent |-> IF msgs = <<>> THEN rpcOut.lastSent ELSE msgs[Len(msgs)]]

\* A step of the script that runs updateDiscordRPC.
RpcCheck(op, r) ==
  LET u == updateDiscordRPC(r, rpcPage, now)
  IN /\ rpc' = u.rpc
     /\ rpcOut' = RpcSent(op, u.msgs)
     /\ UNCHANGED rpcPage
     /\ UNCHANGED <<scrobblerVars, injectVars, navVars, serverVars, discordVars, lyricsVars>>

InitRpc ==
  /\ rpcPage \in RpcPages
  /\ rpc = NoRpc
  /\ rpcOut = NoRpcOut

\* Date.now() advances.
RpcTick ==
  /\ now < Epoch + MaxTicks * ClockStep
  /\ now' = now + ClockStep
  /\ rpcOut' = RpcSent("none", <<>>)
  /\ UNCHANGED <<rpcPage, rpc>>
  /\ UNCHANGED <<injectVars, navVars, serverVars, discordVars, lyricsVars, proxyVars, hostVars,
                 pageVars, scriptVars, sessionVars, historyVars, out>>

\* The page changes its media element, URL or title.
RpcPageChanges(page) ==
  /\ page # rpcPage
  /\ page.api = rpcPage.api
  /\ rpcPage' = page
  /\ rpcOut' = RpcSent("none", <<>>)
  /\ UNCHANGED rpc
  /\ UNCHANGED <<scrobblerVars, injectVars, navVars, serverVars, discordVars, lyricsVars>>

\* setTimeout(watchVideo, 500) fires: the first updateDiscordRPC, the
\* subscriptions and the heartbeat interval.
DiscordRPC_watchVideo ==
  /\ rpc.state = "none"
  /\ RpcCheck("watchVideo", [rpc EXCEPT !.state = "watching"])

\* The 500 ms heartbeat.
DiscordRPC_heartbeat ==
  /\ rpc.state = "watching"
  /\ rpcPage.video /\ ~rpcPage.paused
  /\ RpcCheck("heartbeat", rpc)

\* 'play', 'pause' or 'seeked' on the media element.
DiscordRPC_videoEvent ==
  /\ rpc.state = "watching"
  /\ rpcPage.video
  /\ RpcCheck("videoEvent", rpc)

\* The onVideoFound callback.
DiscordRPC_onVideoFound ==
  /\ rpc.state = "watching"
  /\ rpcPage.video
  /\ RpcCheck("onVideoFound", rpc)

\* The onNavigation callback.
DiscordRPC_onNavigation ==
  /\ rpc.state = "watching"
  /\ rpc.navTimeouts < MaxNavTimeouts
  /\ rpc' = [rpc EXCEPT !.currentVideoId = "", !.startTime = 0, !.navTimeouts = @ + 1]
  /\ rpcOut' = RpcSent("onNavigation", <<>>)
  /\ UNCHANGED rpcPage
  /\ UNCHANGED <<scrobblerVars, injectVars, navVars, serverVars, discordVars, lyricsVars>>

\* The timeout set by the onNavigation callback fires.
DiscordRPC_navTimeout ==
  /\ rpc.navTimeouts > 0
  /\ RpcCheck("navTimeout", [rpc EXCEPT !.navTimeouts = @ - 1])

\* The retry timeout (updateTimeout) fires.
DiscordRPC_retryTimeout ==
  /\ rpc.updateTimeout
  /\ RpcCheck("retryTimeout", rpc)

NextRpc ==
  \/ RpcTick
  \/ \E page \in RpcPages : RpcPageChanges(page)
  \/ DiscordRPC_watchVideo
  \/ DiscordRPC_heartbeat
  \/ DiscordRPC_videoEvent
  \/ DiscordRPC_onVideoFound
  \/ DiscordRPC_onNavigation
  \/ DiscordRPC_navTimeout
  \/ DiscordRPC_retryTimeout

InitSpecRpc ==
  IdleScrobbler /\ IdleInject /\ IdleNav /\ IdleServer /\ InitRpc /\ IdleDiscord /\ IdleLyrics

SpecRpc == InitSpecRpc /\ [][NextRpc]_vars

\* The page gives the script nothing to track: no media element, or no id.
NothingToTrack == getVideoInfo(rpcPage) = Null \/ getVideoInfo(rpcPage).id = ""

\* C32: a step sends the clear message only when an id was tracked and the
\* page gives nothing to track, and that step resets the tracked id and the
\* start time; a check made while nothing is tracked and nothing can be found
\* sends no message; and the last message before a clear is always an update.
C32_ClearOnlyOnTransition ==
  [][/\ (\E i \in 1..Len(rpcOut'.msgs) : rpcOut'.msgs[i] = CLEAR)
          => /\ rpc.currentVideoId # ""
             /\ NothingToTrack
             /\ rpc'.currentVideoId = "" /\ rpc'.startTime = 0
             /\ rpcOut'.msgs = <<CLEAR>>
             /\ rpcOut.lastSent = UPDATE
     /\ (rpc.currentVideoId = "" /\ NothingToTrack /\ rpcOut'.op # "none")
          => rpcOut'.msgs = <<>>]_vars

\* C32 witness: the retry timeout found the media element gone while an id
\* was tracked, sent the clear message and left the script idle.
C32_Witness ==
  /\ rpcOut.op = "retryTimeout"
  /\ rpcOut.msgs = <<CLEAR>>
  /\ rpc.currentVideoId = ""
  /\ rpc.startTime = 0
  /\ ~rpcPage.video

\* ---------------------------------------------------------------------------
\* SpecDiscord: the DiscordRPC plugin in the host process: its lifecycle
\* hooks, the presence service it holds and the windows' 'ready-to-show'.
\* ---------------------------------------------------------------------------

\* new DiscordService(window, config): not connected, connect() not called yet
NewService(w) == [window |-> w, connectCalled |-> FALSE, connected |-> FALSE]

\* discordService.connect(): whether it succeeds is Discord's answer
connect(svc, ok) == [svc EXCEPT !.connectCalled = TRUE, !.connected = ok]

\* discordService.disconnect()
disconnect(svc) == [svc EXCEPT !.connected = FALSE]

\* initializeService: returns without a main window; else a new service
\* replaces this.discordService and, the config being enabled, connect waits
\* for the window's next 'ready-to-show'.  A listener put on a window that has
\* been shown is never called and is not counted.
initializeService(d) ==
  IF d.mainWindow = 0 THEN d
  ELSE [d EXCEPT !.discordService = NewService(d.mainWindow),
                 !.liveServices = @ + 1,
                 !.handlers[d.mainWindow] =
                    IF isEnabled([enabled |-> d.enabled])
                         /\ d.windows[d.mainWindow] # "shown"
                      THEN @ + 1 ELSE @]

\* discordService.cleanup(); this.discordService = null
cleanupService(d) ==
  IF d.discordService = Null THEN d
  ELSE [d EXCEPT !.discordService = Null, !.liveServices = @ - 1]

\* What a hook records: whether it created a service, and whether the main
\* window had emitted 'ready-to-show' before.
DcHookOut(op, d) ==
  [op |-> op,
   created |-> d.liveServices > dc.liveServices,
   reached |-> FALSE,
   shownBefore |-> dc.mainWindow # 0 /\ dc.windows[dc.mainWindow] = "shown"]

\* initializeService stays within the bound on pending listeners.
WithinHandlers(d) == \A w \in Windows : d.handlers[w] <= MaxHandlers

\* The host's Config Store takes a new enabled flag for the plugin.
DiscordConfig_set(en) ==
  /\ en # dc.enabled
  /\ dc' = [dc EXCEPT !.enabled = en]
  /\ dcOut' = DcHookOut("config", dc)
  /\ UNCHANGED <<scrobblerVars, injectVars, navVars, serverVars, rpcVars, lyricsVars>>

\* The host creates window w and calls onWindowCreated(w).
DiscordRPCPlugin_onWindowCreated(w) ==
  /\ dc.windows[w] = "none"
  /\ LET d1 == [dc EXCEPT !.windows[w] = "created", !.mainWindow = w]
         d2 == IF isEnabled([enabled |-> dc.enabled]) THEN initializeService(d1) ELSE d1
     IN /\ WithinHandlers(d2)
        /\ dc' = d2
        /\ dcOut' = DcHookOut("onWindowCreated", d2)
  /\ UNCHANGED <<scrobblerVars, injectVars, navVars, serverVars, rpcVars, lyricsVars>>

\* Window w emits 'ready-to-show', once: every listener put on it with once()
\* runs this.discordService?.connect(...).
Window_readyToShow(w, ok) ==
  /\ dc.windows[w] = "created"
  /\ dc' = [dc EXCEPT !.windows[w] = "shown",
                      !.handlers[w] = 0,
                      !.discordService =
                         IF dc.handlers[w] > 0 /\ @ # Null THEN connect(@, ok) ELSE @]
  /\ dcOut' = DcHookOut("ready-to-show", dc)
  /\ UNCHANGED <<scrobblerVars, injectVars, navVars, serverVars, rpcVars, lyricsVars>>

DiscordRPCPlugin_onConfigChanged(ok) ==
  /\ LET en == isEnabled([enabled |-> dc.enabled])
         d1 == IF dc.discordService # Null /\ dc.mainWindow # 0
                 THEN IF en /\ ~dc.discordService.connected
                        THEN [dc EXCEPT !.discordService = connect(@, ok)]
                      ELSE IF ~en /\ dc.discordService.connected
                        THEN [dc EXCEPT !.discordService = disconnect(@)]
                      ELSE dc
               ELSE IF en /\ dc.mainWindow # 0 THEN initializeService(dc)
               ELSE IF ~en /\ dc.discordService # Null THEN cleanupService(dc)
               ELSE dc
     IN /\ WithinHandlers(d1)
        /\ dc' = d1
        /\ dcOut' = DcHookOut("onConfigChanged", d1)
  /\ UNCHANGED <<scrobblerVars, injectVars, navVars, serverVars, rpcVars, lyricsVars>>

DiscordRPCPlugin_onDisabled ==
  /\ dc' = cleanupService(dc)
  /\ dcOut' = DcHookOut("onDisabled", dc)
  /\ UNCHANGED <<scrobblerVars, injectVars, navVars, serverVars, rpcVars, lyricsVars>>

\* updateState(videoData) / clearState(): forwarded to the service if the
\* plugin is enabled and holds one.
DiscordRPCPlugin_updateState ==
  /\ dcOut' = [DcHookOut("updateState", dc) EXCEPT
                 !.reached = isEnabled([enabled |-> dc.enabled]) /\ dc.discordService # Null]
  /\ UNCHANGED dc
  /\ UNCHANGED <<scrobblerVars, injectVars, navVars, serverVars, rpcVars, lyricsVars>>

DiscordRPCPlugin_clearState ==
  /\ dcOut' = [DcHookOut("clearState", dc) EXCEPT
                 !.reached = isEnabled([enabled |-> dc.enabled]) /\ dc.discordService # Null]
  /\ UNCHANGED dc
  /\ UNCHANGED <<scrobblerVars, injectVars, navVars, serverVars, rpcVars, lyricsVars>>

NextDiscord ==
  \/ \E en \in BOOLEAN : DiscordConfig_set(en)
  \/ \E w \in Windows : DiscordRPCPlugin_onWindowCreated(w)
  \/ \E w \in Windows, ok \in BOOLEAN : Window_readyToShow(w, ok)
  \/ \E ok \in BOOLEAN : DiscordRPCPlugin_onConfigChanged(ok)
  \/ DiscordRPCPlugin_onDisabled
  \/ DiscordRPCPlugin_updateState
  \/ DiscordRPCPlugin_clearState

InitDiscord ==
  /\ dc \in {[NoDiscord EXCEPT !.enabled = en] : en \in BOOLEAN}
  /\ dcOut = NoDcOut

InitSpecDiscord ==
  IdleScrobbler /\ IdleInject /\ IdleNav /\ IdleServer /\ IdleRpc /\ InitDiscord /\ IdleLyrics

SpecDiscord == InitSpecDiscord /\ [][NextDiscord]_vars

\* A window that has been created emits 'ready-to-show'.
SpecDiscordFair ==
  /\ SpecDiscord
  /\ \A w \in Windows : WF_vars(\E ok \in BOOLEAN : Window_readyToShow(w, ok))

\* C36 (as claimed): at most one presence service is live (created and not
\* cleaned up) at any time, and after onDisabled none is and the plugin holds
\* none.
C36_AtMostOneService ==
  /\ dc.liveServices <= 1
  /\ dcOut.op = "onDisabled" => (dc.discordService = Null /\ dc.liveServices = 0)

\* C37 (as claimed): when onConfigChanged finds the plugin enabled with a
\* main window that has already emitted 'ready-to-show' and creates the
\* service, connect is eventually called on it, unless the plugin is disabled
\* or the service is dropped first.
C37_LateEnableConnects ==
  (dcOut.op = "onConfigChanged" /\ dcOut.created /\ dcOut.shownBefore)
    ~> (\/ dc.discordService = Null
        \/ ~dc.enabled
        \/ dc.discordService.connectCalled)

\* ---------------------------------------------------------------------------
\* SpecLyrics: the BetterLyrics renderer script: the metadata poll, the
\* lyrics tab, and fetchLyrics with its two awaited requests to lrclib.net.
\* Lyrics are known by the track they belong to; a status text is one of
\* "loading", "notfound", "error" and "retry" (the error with its button).
\* ---------------------------------------------------------------------------

LyricsTracks == {"A", "B"}

\* navigator.mediaSession.metadata: none ("") or a track's
Metadatas == {""} \cup LyricsTracks

Free(b) == {s \in Slots : b.inflight[s].stage = "free"}

\* renderLyrics(): the element shows the lines of currentLyrics
renderLyrics(b) == [b EXCEPT !.displayed = b.currentLyrics]

\* updateStatus(msg, extraClass, showRetry)
updateStatus(b, msg) == [b EXCEPT !.displayed = msg]

\* fetchLyrics up to its first await: nothing without metadata; for the track
\* fetched last, with lyrics held, at most a re-render; else the state is
\* reset for the new track and the exact-match request goes out.
fetchLyrics(b, metadata) ==
  IF metadata = "" THEN b
  ELSE IF b.lastFetchedTrack = metadata /\ b.currentLyrics # ""
    THEN IF b.displayed = "" THEN renderLyrics(b) ELSE b
  ELSE LET s == CHOOSE x \in Free(b) : \A y \in Free(b) : x <= y
       IN [updateStatus(b, "loading") EXCEPT
             !.lastFetchedTrack = metadata,
             !.currentLyrics = "",
             !.inflight[s] = [track |-> metadata, stage |-> "exact"]]

\* a call of fetchLyrics that sends a request needs a free slot
CanFetch(b, metadata) ==
  \/ metadata = ""
  \/ b.lastFetchedTrack = metadata /\ b.currentLyrics # ""
  \/ Free(b) # {}

\* fetchLyrics after its last await: the lines found are rendered, else the
\* status says so.  currentLyrics is read here as it is now.
finish(b, s, found) ==
  LET b1 == [b EXCEPT !.inflight[s] = FreeSlot]
  IN IF found /\ b1.currentLyrics # "" THEN renderLyrics(b1)
     ELSE updateStatus(b1, "notfound")

\* catch (e): the error text, with the retry button if there is metadata
failed(b, s, metadata) ==
  updateStatus([b EXCEPT !.inflight[s] = FreeSlot],
               IF metadata # "" THEN "retry" ELSE "error")

\* checkForLyricsTab: with the description shelf on the page and no container
\* beside it, a new container is put in and lyrics are fetched at once.
checkForLyricsTab(b, page) ==
  IF page.tab = "shelf"
    THEN [fetchLyrics([b EXCEPT !.displayed = ""], page.metadata) EXCEPT !.active = TRUE]
    ELSE b

TabAfterCheck(page) == [page EXCEPT !.tab = IF @ = "shelf" THEN "injected" ELSE @]

\* The page sets or drops the media session's metadata.
LyricsPage_metadata(m) ==
  /\ m # blPage.metadata
  /\ blPage' = [blPage EXCEPT !.metadata = m]
  /\ UNCHANGED bl
  /\ UNCHANGED <<scrobblerVars, injectVars, navVars, serverVars, rpcVars, discordVars>>

\* The page shows the lyrics tab, or rebuilds it without the container.
LyricsPage_tab(t) ==
  /\ t \in {"absent", "shelf"}
  /\ t # blPage.tab
  /\ blPage' = [blPage EXCEPT !.tab = t]
  /\ UNCHANGED bl
  /\ UNCHANGED <<scrobblerVars, injectVars, navVars, serverVars, rpcVars, discordVars>>

\* setInterval(..., 2000): a new title is fetched, then checkForLyricsTab
BetterLyrics_poll ==
  /\ LET m == blPage.metadata
         b1 == IF m # "" /\ m # bl.lastTitle
                 THEN fetchLyrics([bl EXCEPT !.lastTitle = m], m)
                 ELSE bl
     IN /\ (m # "" /\ m # bl.lastTitle) => CanFetch(bl, m)
        /\ blPage.tab = "shelf" => CanFetch(b1, m)
        /\ bl' = checkForLyricsTab(b1, blPage)
  /\ blPage' = TabAfterCheck(blPage)
  /\ UNCHANGED <<scrobblerVars, injectVars, navVars, serverVars, rpcVars, discordVars>>

\* the MutationObserver on ytmusic-app, and the timeout after a navigation
BetterLyrics_checkForLyricsTab ==
  /\ blPage.tab = "shelf"
  /\ CanFetch(bl, blPage.metadata)
  /\ bl' = checkForLyricsTab(bl, blPage)
  /\ blPage' = TabAfterCheck(blPage)
  /\ UNCHANGED <<scrobblerVars, injectVars, navVars, serverVars, rpcVars, discordVars>>

\* the retry button of the error status
BetterLyrics_retry ==
  /\ bl.displayed = "retry"
  /\ CanFetch(bl, blPage.metadata)
  /\ bl' = fetchLyrics(bl, blPage.metadata)
  /\ UNCHANGED blPage
  /\ UNCHANGED <<scrobblerVars, injectVars, navVars, serverVars, rpcVars, discordVars>>

\* The exact-match request of slot s is answered: with synced lyrics, without
\* ("plain", or a failed fetch, which is caught), or with a body that is not
\* JSON ("error").  Without synced lyrics the search request goes out.
BetterLyrics_exactResponse(s, r) ==
  /\ bl.inflight[s].stage = "exact"
  /\ bl' = CASE r = "synced" ->
                  finish([bl EXCEPT !.currentLyrics = bl.inflight[s].track], s, TRUE)
             [] r = "plain" -> [bl EXCEPT !.inflight[s].stage = "search"]
             [] r = "error" -> failed(bl, s, blPage.metadata)
  /\ UNCHANGED blPage
  /\ UNCHANGED <<scrobblerVars, injectVars, navVars, serverVars, rpcVars, discordVars>>

\* The search request of slot s is answered: with an item that has synced
\* lyrics, with none, or the fetch fails.
BetterLyrics_searchResponse(s, r) ==
  /\ bl.inflight[s].stage = "search"
  /\ bl' = CASE r = "synced" ->
                  finish([bl EXCEPT !.currentLyrics = bl.inflight[s].track], s, TRUE)
             [] r = "plain" -> finish(bl, s, FALSE)
             [] r = "error" -> failed(bl, s, blPage.metadata)
  /\ UNCHANGED blPage
  /\ UNCHANGED <<scrobblerVars, injectVars, navVars, serverVars, rpcVars, discordVars>>

LyricsResults == {"synced", "plain", "error"}

NextLyrics ==
  \/ \E m \in Metadatas : LyricsPage_metadata(m)
  \/ \E t \in {"absent", "shelf"} : LyricsPage_tab(t)
  \/ BetterLyrics_poll
  \/ BetterLyrics_checkForLyricsTab
  \/ BetterLyrics_retry
  \/ \E s \in Slots, r \in LyricsResults : BetterLyrics_exactResponse(s, r)
  \/ \E s \in Slots, r \in LyricsResults : BetterLyrics_searchResponse(s, r)

InitSpecLyrics ==
  IdleScrobbler /\ IdleInject /\ IdleNav /\ IdleServer /\ IdleRpc /\ IdleDiscord /\ IdleLyrics

SpecLyrics == InitSpecLyrics /\ [][NextLyrics]_vars

\* C38 (as claimed): once no fetch is in flight, the lyrics held, and the
\* lyrics shown if lyrics are shown, are those of the track requested last.
C38_LatestTrackLyrics ==
  Free(bl) = Slots =>
    /\ bl.currentLyrics \in {"", bl.lastFetchedTrack}
    /\ (bl.displayed \in LyricsTracks) => bl.displayed = bl.lastFetchedTrack

====
